---- MODULE Spec2Model ----
(***************************************************************************)
(* Model of the file-descriptor layer of the ox shell's execution engine   *)
(* (src/src/execute.rs): the owned descriptor RustFd, the I/O bundle       *)
(* ProcIO, the launch frames built by fork_instruction! and the tree       *)
(* walker.                                                                 *)
(*                                                                         *)
(* The process's descriptor table is fdt: number -> resource or Closed.    *)
(* Every RustFd value that ever exists is an entry of the instance pool    *)
(* (fd, st); an Arc<Mutex<RustFd>> is a reference to a pool entry.         *)
(*                                                                         *)
(* SpecFd     the operations of RustFd on arbitrary descriptor numbers     *)
(* SpecIO     ProcIO bundles over handles their callers make               *)
(* SpecClone  one bundle, its clones, and closes through any of them       *)
(* SpecRT     backup_fildescs / restore_fildescs around re-pointings       *)
(* SpecLaunch the frames of handle_command, handle_function and            *)
(*            handle_subshell through fork_instruction!, as the shell      *)
(*            process sees them                                            *)
(* SpecProc   one node with its flags through fork_instruction!: the     *)
(*            child branch, the fork, the wait and the terminal            *)
(* SpecWalk   one tree walked by traverse_root, handle_chain, handle_if,   *)
(*            handle_loop, handle_for or handle_case                       *)
(* SpecEnv    a function call or a subshell and the shell's parameters     *)
(* SpecRedirs handle_redirs on a sequence of directives                    *)
(* SpecJobs   the Job Table: new_job, status updates, update_curr_job      *)
(* SpecCtl    one loop whose statements return break and restart statuses  *)
(* SpecRun    ExecDispatcher::run over the trees of its inbox              *)
(* SpecWait   foreground commands and the iterations of the wait loop      *)
(* SpecDeck   the commands of one Root, each with a clone of its bundle    *)
(* SpecScript the script handle_subshell makes of a body text              *)
(* SpecPrint  a job table built up and listed by print_jobs                *)
(* SpecNames  the alias and function tables and the NO_ALIAS flag          *)
(* SpecExpand the loop of expand_token over expand_var                     *)
(***************************************************************************)
EXTENDS Integers, Sequences, FiniteSets, TLC

\* ---------------------------------------------------------------- bounds
MaxFd   == 10     \* descriptor numbers 0 .. MaxFd-1 exist in the table
MaxNum  == 3      \* descriptor numbers -1 .. MaxNum are named by callers
MaxInst == 8      \* RustFd values created in one behaviour
MaxOps  == 3      \* RustFd operations in one behaviour
MaxRtOps == 4     \* caller operations around one backup and restore
MaxIoOps == 3     \* ProcIO operations in one behaviour
MaxLaunch == 2    \* launches in one behaviour
MaxHandles == 2   \* handles a caller makes before it builds bundles
MaxIo   == 2      \* ProcIO values in one behaviour
MaxNodes == 1     \* nodes dispatched with their flags in one behaviour
MaxFiles == 1     \* files opened for the bundles of dispatched nodes
MaxScript == 4    \* leaf evaluations of one tree walk that return a status
MaxDeck == 2      \* children of one Root
MaxPairs == 2     \* condition/body pairs of an If, patterns of a Case
MaxVars == 2      \* loop variables of a For
MaxToks == 2      \* tokens of a For's iteration list
MaxWords == 2     \* words one token expands to
MaxEintr == 2     \* waitpid calls of one wait loop that return an error
MaxBody == 5      \* characters of a subshell's body text
MaxText == 3      \* characters of a token's text
MaxTrees == 2     \* trees the dispatcher takes from its inbox
MaxArgs == 1      \* positional parameters, arguments after a function's name
MaxRedirs == 2    \* redirection directives of one node
MaxJobs == 2      \* background jobs created in one behaviour
MaxStages == 2    \* member processes of one job
MaxReaps == 2     \* status updates in one behaviour

Fds     == 0 .. (MaxFd - 1)
Nums    == -1 .. MaxNum
Inst    == 1 .. MaxInst
Io      == 1 .. MaxIo
Closed  == "closed"
NoInst  == 0
StdNums == {0, 1, 2}

VARIABLES fdt,        \* the process's descriptor table
          fd,         \* RustFd.fd of every instance
          st,         \* "free" (not yet constructed), "live", "dropped"
          closedOk,   \* a close() on the instance has returned Ok
          ncloses,    \* OS closes that succeeded through the instance
          last,       \* the operation just performed and its result
          ops,        \* RustFd operations performed so far
          ioops,      \* ProcIO operations performed so far
          io,         \* the ProcIO values
          pc,         \* position of the launch frame
          frame,      \* the launch frame's node kind, flags and counters
          snap,       \* descriptors 0/1/2 when the backup was last taken
          proc,       \* the node being launched, the launching process, its child
          job_table,  \* ShellEnv.job_table
          walk,       \* the tree the walker was given and what it did with it
          run,        \* ExecDispatcher::run: trees taken, its status, where it is
          env,        \* the shell's positional parameters, the arguments of the
                      \* call at hand and the snapshot its handler took; the body
                      \* of the subshell at hand and the script made of it; the
                      \* shell's flags and the keys of its alias and function
                      \* tables; its variables and the buffers of expand_token
          rd          \* the directives handle_redirs was given and what it returned

aux == <<run, env, rd>>
vars == <<fdt, fd, st, closedOk, ncloses, last, ops, ioops, io, pc, frame, snap,
          proc, job_table, walk, aux>>
fdvars == <<fdt, fd, st, closedOk, ncloses>>
ctl == <<proc, job_table, walk, aux>>

\* ------------------------------------------------------- the OS interface
\* dup(2), open(2), pipe(2), memfd_create(2) return the lowest free number.
Free(t)        == {n \in Fds : t[n] = Closed}
HasFree(t)     == Free(t) # {}
LowestFree(t)  == CHOOSE n \in Free(t) : \A m \in Free(t) : n <= m
IsOpen(t, n)   == n \in Fds /\ t[n] # Closed
\* dup2(old, new) fails with EBADF unless old is open and new is in range
OsDup2Ok(t, old, new) == IsOpen(t, old) /\ new \in Fds
OsDup2(t, old, new)   == [t EXCEPT ![new] = t[old]]
\* close(n) fails with EBADF unless n is open
OsCloseOk(t, n) == IsOpen(t, n)
OsClose(t, n)   == [t EXCEPT ![n] = Closed]

\* ---------------------------------------------------------------- RustFd
\* RustFd::is_valid
is_valid(f) == f > 0

\* RustFd::dup2 as a function of the table: the result and the new table.
\* The variant checks validity before it compares the two numbers.
dup2_checkfirst(t, f, target) ==
  IF ~is_valid(f) \/ target < 0 THEN [res |-> "Err", tab |-> t]
  ELSE IF f = target THEN [res |-> "Ok", tab |-> t]
  ELSE IF OsDup2Ok(t, f, target) THEN [res |-> "Ok", tab |-> OsDup2(t, f, target)]
  ELSE [res |-> "Err", tab |-> t]

dup2(t, f, target) ==
  IF f = target THEN [res |-> "Ok", tab |-> t]
  ELSE IF ~is_valid(f) \/ target < 0 THEN [res |-> "Err", tab |-> t]
  ELSE IF OsDup2Ok(t, f, target) THEN [res |-> "Ok", tab |-> OsDup2(t, f, target)]
  ELSE [res |-> "Err", tab |-> t]

\* RustFd::close as a function: result, new table, new number, whether the
\* OS close was issued.  The variant forgets to reset the number.
close_keepfd(t, f) ==
  IF ~is_valid(f) THEN [res |-> "Err", tab |-> t, fd |-> f, sys |-> FALSE]
  ELSE IF OsCloseOk(t, f) THEN [res |-> "Ok", tab |-> OsClose(t, f), fd |-> f, sys |-> TRUE]
  ELSE [res |-> "Err", tab |-> t, fd |-> f, sys |-> TRUE]

close(t, f) ==
  IF ~is_valid(f) THEN [res |-> "Err", tab |-> t, fd |-> f, sys |-> FALSE]
  ELSE IF OsCloseOk(t, f) THEN [res |-> "Ok", tab |-> OsClose(t, f), fd |-> -1, sys |-> TRUE]
  ELSE [res |-> "Err", tab |-> t, fd |-> f, sys |-> TRUE]

\* The world the descriptor operations act on: the table and the pool.
World == [t |-> fdt, fd |-> fd, st |-> st, ok |-> closedOk, nc |-> ncloses]
SetWorld(w) == /\ fdt' = w.t
               /\ fd' = w.fd
               /\ st' = w.st
               /\ closedOk' = w.ok
               /\ ncloses' = w.nc

\* a pool entry is free before its value is constructed and after it is dropped
WFree(w)     == {i \in Inst : w.st[i] \in {"free", "dropped"}}
WNext(w)     == CHOOSE i \in WFree(w) : \A j \in WFree(w) : i <= j
\* a value constructed with number n over table t
WMake(w, t, n) == [w EXCEPT !.t = t, !.fd[WNext(w)] = n, !.st[WNext(w)] = "live",
                               !.ok[WNext(w)] = FALSE, !.nc[WNext(w)] = 0]

\* RustFd::close on instance i
RustFd_close(w, i) ==
  LET c == close(w.t, w.fd[i])
  IN [w   |-> [w EXCEPT !.t = c.tab, !.fd[i] = c.fd,
                        !.ok[i] = @ \/ c.res = "Ok",
                        !.nc[i] = IF c.res = "Ok" THEN @ + 1 ELSE @],
      res |-> c.res, sys |-> c.sys]

\* impl Drop for RustFd: close().ok() when the number is not negative
RustFd_drop(w, i) ==
  LET v == IF w.fd[i] >= 0 THEN RustFd_close(w, i).w ELSE w
  IN [v EXCEPT !.st[i] = "dropped"]

\* RustFd::dup2 on instance i
RustFd_dup2(w, i, target) ==
  LET d == dup2(w.t, w.fd[i], target)
  IN [w |-> [w EXCEPT !.t = d.tab], res |-> d.res]

\* RustFd::from_stdin, from_stdout, from_stderr: dup(k), nix maps -1 to Err
RustFd_from_std(w, k) ==
  IF IsOpen(w.t, k) /\ HasFree(w.t)
    THEN [w |-> WMake(w, [w.t EXCEPT ![LowestFree(w.t)] = w.t[k]], LowestFree(w.t)),
          res |-> "Ok", inst |-> WNext(w)]
    ELSE [w |-> w, res |-> "Err", inst |-> NoInst]

Live(i)     == st[i] = "live"
FreeInst    == WFree(World)
NextInst    == WNext(World)
CanStep     == ops < MaxOps
CanIoStep   == ioops < MaxIoOps

Op(o, i, a, r) == [op |-> o, inst |-> i, arg |-> a, res |-> r]
Done(o, i, a, r) == /\ last' = Op(o, i, a, r)
                    /\ ops' = ops + 1
                    /\ UNCHANGED <<ioops, ctl>>
IoDone(o, b, a, r) == /\ last' = Op(o, b, a, r)
                      /\ ioops' = ioops + 1
                      /\ UNCHANGED <<ops, ctl>>

\* the instances a bundle's backup table owns; no caller reaches them
InBackup(i) == \E b \in Io : \E k \in StdNums : io[b].backup[k] = i
InSlot(i)   == \E b \in Io : i \in {io[b].stdin, io[b].stdout, io[b].stderr}

\* snap.phase is "backed" from a successful backup for as long as nothing but
\* re-pointings of 0, 1 and 2 has happened, "restored" right after the
\* successful restore that follows, and "dirty" otherwise
Other   == snap' = [snap EXCEPT !.phase = "dirty"]
Repoint == IF snap.phase = "backed" THEN UNCHANGED snap ELSE Other

\* the check RustFd::new, from_fd and from_owned_fd make; from_raw_fd makes none
Rejects(c, n)  == IF c = "from_raw_fd" THEN FALSE ELSE n < 0

\* RustFd::new, from_fd, from_owned_fd, from_raw_fd: wrap the number n
Wrap(c, n) ==
  /\ FreeInst # {}
  /\ IF Rejects(c, n)
       THEN /\ Done(c, NoInst, n, "Err")
            /\ UNCHANGED fdvars
       ELSE /\ SetWorld(WMake(World, fdt, n))
            /\ Done(c, NextInst, n, "Ok")
  /\ Other
  /\ UNCHANGED <<io, pc, frame>>

\* RustFd::from_stdin, from_stdout, from_stderr
FromStd(k) ==
  /\ FreeInst # {}
  /\ SetWorld(RustFd_from_std(World, k).w)
  /\ Done("from_std", RustFd_from_std(World, k).inst, k, RustFd_from_std(World, k).res)
  /\ Other
  /\ UNCHANGED <<io, pc, frame>>

\* RustFd::new_memfd: the result of memfd_create is wrapped unchecked, so a
\* failed call (-1) yields Ok(RustFd { fd: -1 }); a name with an interior NUL
\* is the only error
NewMemfd(nameOk, sysOk) ==
  /\ FreeInst # {}
  /\ IF ~nameOk
       THEN /\ Done("new_memfd", NoInst, 0, "Err")
            /\ UNCHANGED fdvars
       ELSE IF sysOk /\ HasFree(fdt)
         THEN /\ SetWorld(WMake(World, [fdt EXCEPT ![LowestFree(fdt)] = "memfd"], LowestFree(fdt)))
              /\ Done("new_memfd", NextInst, 0, "Ok")
         ELSE /\ SetWorld(WMake(World, fdt, -1))
              /\ Done("new_memfd", NextInst, 0, "Ok")
  /\ Other
  /\ UNCHANGED <<io, pc, frame>>

\* RustFd::open: nix's open maps -1 to Err
Open(sysOk) ==
  /\ FreeInst # {}
  /\ IF sysOk /\ HasFree(fdt)
       THEN /\ SetWorld(WMake(World, [fdt EXCEPT ![LowestFree(fdt)] = "file"], LowestFree(fdt)))
            /\ Done("open", NextInst, 0, "Ok")
       ELSE /\ Done("open", NoInst, 0, "Err")
            /\ UNCHANGED fdvars
  /\ Other
  /\ UNCHANGED <<io, pc, frame>>

\* RustFd::pipe: two numbers, each wrapped with from_owned_fd
Pipe(sysOk) ==
  /\ Cardinality(FreeInst) >= 2
  /\ IF sysOk /\ Cardinality(Free(fdt)) >= 2
       THEN LET r  == LowestFree(fdt)
                w1 == WMake(World, [fdt EXCEPT ![r] = "pipe_r"], r)
                w  == LowestFree(w1.t)
            IN /\ SetWorld(WMake(w1, [w1.t EXCEPT ![w] = "pipe_w"], w))
               /\ Done("pipe", NextInst, WNext(w1), "Ok")
       ELSE /\ Done("pipe", NoInst, 0, "Err")
            /\ UNCHANGED fdvars
  /\ Other
  /\ UNCHANGED <<io, pc, frame>>

\* RustFd::write: no effect on the descriptor table; the kernel refuses a
\* descriptor that is not open or is the read end of a pipe
Write(i) ==
  /\ Live(i) /\ ~InBackup(i)
  /\ Done("write", i, 0, IF is_valid(fd[i]) /\ IsOpen(fdt, fd[i]) /\ fdt[fd[i]] # "pipe_r"
                           THEN "Ok" ELSE "Err")
  /\ Other
  /\ UNCHANGED <<fdvars, io, pc, frame>>

\* RustFd::dup
Dup(i) ==
  /\ Live(i) /\ ~InBackup(i) /\ FreeInst # {}
  /\ IF is_valid(fd[i]) /\ IsOpen(fdt, fd[i]) /\ HasFree(fdt)
       THEN /\ SetWorld(WMake(World, [fdt EXCEPT ![LowestFree(fdt)] = fdt[fd[i]]], LowestFree(fdt)))
            /\ Done("dup", NextInst, i, "Ok")
       ELSE /\ Done("dup", NoInst, i, "Err")
            /\ UNCHANGED fdvars
  /\ Other
  /\ UNCHANGED <<io, pc, frame>>

\* RustFd::dup2
Dup2(i, target) ==
  /\ Live(i) /\ ~InBackup(i)
  /\ SetWorld(RustFd_dup2(World, i, target).w)
  /\ Done("dup2", i, target, RustFd_dup2(World, i, target).res)
  /\ IF target \in StdNums THEN Repoint ELSE Other
  /\ UNCHANGED <<io, pc, frame>>

\* RustFd::close; last.arg tells whether the OS close was issued
Close(i) ==
  /\ Live(i) /\ ~InBackup(i)
  /\ SetWorld(RustFd_close(World, i).w)
  /\ Done("close", i, IF RustFd_close(World, i).sys THEN 1 ELSE 0, RustFd_close(World, i).res)
  /\ Other
  /\ UNCHANGED <<io, pc, frame>>

\* a value no bundle refers to goes out of scope; last.arg is its number
Drop(i) ==
  /\ Live(i) /\ ~InBackup(i) /\ ~InSlot(i)
  /\ SetWorld(RustFd_drop(World, i))
  /\ Done("drop", i, fd[i], "Ok")
  /\ Other
  /\ UNCHANGED <<io, pc, frame>>

\* ------------------------------------------------------------------ state
EmptyBackup == [k \in StdNums |-> NoInst]
NoIo == [st |-> "free", stdin |-> NoInst, stdout |-> NoInst, stderr |-> NoInst,
         backup |-> EmptyBackup, cloneOf |-> 0]
StdTable == [n \in Fds |-> IF n = 0 THEN "tty_in" ELSE IF n = 1 THEN "tty_out"
                           ELSE IF n = 2 THEN "tty_err" ELSE Closed]

\* ---------------------------------------------------------------- ProcIO
Res2(w, r) == [w |-> w, res |-> r]

\* one `fd.lock().unwrap().close()?` of close_all
CloseSlot(s, h) ==
  IF s.res = "Err" \/ h = NoInst THEN s
  ELSE Res2(RustFd_close(s.w, h).w, RustFd_close(s.w, h).res)

\* ProcIO::close_all: stdin, stdout, stderr, each under `?`
ProcIO_close_all(w, bio) ==
  CloseSlot(CloseSlot(CloseSlot(Res2(w, "Ok"), bio.stdin), bio.stdout), bio.stderr)

\* one `pipe.dup2(&n)?; pipe.close()?;` of do_plumbing
PlumbSlot(s, h, n) ==
  IF s.res = "Err" \/ h = NoInst THEN s
  ELSE IF RustFd_dup2(s.w, h, n).res = "Err" THEN Res2(s.w, "Err")
  ELSE LET c == RustFd_close(RustFd_dup2(s.w, h, n).w, h) IN Res2(c.w, c.res)

\* ProcIO::do_plumbing: stderr, stdout, stdin
ProcIO_do_plumbing(w, bio) ==
  PlumbSlot(PlumbSlot(PlumbSlot(Res2(w, "Ok"), bio.stderr, 2), bio.stdout, 1), bio.stdin, 0)

\* the values of a dropped backup table are dropped with it
DropEntry(w, h) == IF h = NoInst THEN w ELSE RustFd_drop(w, h)
DropBackup(w, bk) == DropEntry(DropEntry(DropEntry(w, bk[0]), bk[1]), bk[2])

\* ProcIO::backup_fildescs: three dups under `?` (a failure drops the dups
\* already made), then the new table replaces, and so drops, the old one
ProcIO_backup_fildescs(w, bk) ==
  LET a == RustFd_from_std(w, 0)
      b == RustFd_from_std(a.w, 1)
      c == RustFd_from_std(b.w, 2)
  IN IF a.res = "Err" THEN [w |-> w, bk |-> bk, res |-> "Err"]
     ELSE IF b.res = "Err" THEN [w |-> RustFd_drop(a.w, a.inst), bk |-> bk, res |-> "Err"]
     ELSE IF c.res = "Err"
       THEN [w |-> RustFd_drop(RustFd_drop(b.w, b.inst), a.inst), bk |-> bk, res |-> "Err"]
     ELSE [w |-> DropBackup(c.w, bk),
           bk |-> [k \in StdNums |-> IF k = 0 THEN a.inst ELSE IF k = 1 THEN b.inst ELSE c.inst],
           res |-> "Ok"]

\* one `if let Some(mut saved) = self.backup.remove(&k) { saved.dup2(&k)?;
\* saved.close()?; }` of restore_fildescs; saved is dropped on every path
RestoreOne(s, k) ==
  IF s.res = "Err" \/ s.bk[k] = NoInst THEN s
  ELSE LET h   == s.bk[k]
           bk2 == [s.bk EXCEPT ![k] = NoInst]
           d   == RustFd_dup2(s.w, h, k)
           c   == RustFd_close(d.w, h)
       IN IF d.res = "Err" THEN [w |-> RustFd_drop(d.w, h), bk |-> bk2, res |-> "Err"]
          ELSE [w |-> RustFd_drop(c.w, h), bk |-> bk2, res |-> c.res]

\* ProcIO::restore_fildescs: 0, 1, 2 in that order
ProcIO_restore_fildescs(w, bk) ==
  RestoreOne(RestoreOne(RestoreOne([w |-> w, bk |-> bk, res |-> "Ok"], 0), 1), 2)

\* the variant copies the RustFd values instead of sharing them
ProcIO_clone_copy(w, bio, b) ==
  IF bio.stdout # NoInst /\ WFree(w) # {}
    THEN [w |-> WMake(w, w.t, w.fd[bio.stdout]),
          io |-> [st |-> "live", stdin |-> bio.stdin, stdout |-> WNext(w), stderr |-> bio.stderr,
                  backup |-> EmptyBackup, cloneOf |-> b]]
    ELSE [w |-> w,
          io |-> [st |-> "live", stdin |-> bio.stdin, stdout |-> bio.stdout, stderr |-> bio.stderr,
                  backup |-> EmptyBackup, cloneOf |-> b]]

\* impl Clone for ProcIO: ProcIO::from of the three Arc clones
ProcIO_clone(w, bio, b) ==
  [w |-> w,
   io |-> [st |-> "live", stdin |-> bio.stdin, stdout |-> bio.stdout, stderr |-> bio.stderr,
           backup |-> EmptyBackup, cloneOf |-> b]]

LiveIo(b)  == io[b].st = "live"
\* the handle a bundle plumbs onto descriptor n
SlotOf(bio, n) == IF n = 0 THEN bio.stdin ELSE IF n = 1 THEN bio.stdout ELSE bio.stderr
FreeIo     == {b \in Io : io[b].st = "free"}
NextIoId   == CHOOSE b \in FreeIo : \A c \in FreeIo : b <= c
\* what a caller can put into a bundle: nothing, or a value it owns
Handles    == {NoInst} \cup {i \in Inst : Live(i) /\ ~InBackup(i)}

\* ProcIO::from (ProcIO::new is from(None, None, None))
IoFrom(x, y, z) ==
  /\ FreeIo # {}
  /\ {x, y, z} \subseteq Handles
  /\ io' = [io EXCEPT ![NextIoId] = [st |-> "live", stdin |-> x, stdout |-> y, stderr |-> z,
                                     backup |-> EmptyBackup, cloneOf |-> 0]]
  /\ IoDone("from", NextIoId, 0, "Ok")
  /\ Other
  /\ UNCHANGED <<fdvars, pc, frame>>

IoClone(b) ==
  /\ LiveIo(b) /\ FreeIo # {}
  /\ SetWorld(ProcIO_clone(World, io[b], b).w)
  /\ io' = [io EXCEPT ![NextIoId] = ProcIO_clone(World, io[b], b).io]
  /\ IoDone("clone", NextIoId, b, "Ok")
  /\ Other
  /\ UNCHANGED <<pc, frame>>

CloseAll(b) ==
  /\ LiveIo(b)
  /\ SetWorld(ProcIO_close_all(World, io[b]).w)
  /\ IoDone("close_all", b, 0, ProcIO_close_all(World, io[b]).res)
  /\ Other
  /\ UNCHANGED <<io, pc, frame>>

DoPlumbing(b) ==
  /\ LiveIo(b)
  /\ SetWorld(ProcIO_do_plumbing(World, io[b]).w)
  /\ IoDone("do_plumbing", b, 0, ProcIO_do_plumbing(World, io[b]).res)
  /\ Other
  /\ UNCHANGED <<io, pc, frame>>

BackupFildescs(b) ==
  /\ LiveIo(b) /\ Cardinality(FreeInst) >= 3
  /\ LET r == ProcIO_backup_fildescs(World, io[b].backup)
     IN /\ SetWorld(r.w)
        /\ io' = [io EXCEPT ![b].backup = r.bk]
        /\ IoDone("backup_fildescs", b, 0, r.res)
        /\ IF r.res = "Ok"
             THEN snap' = [tab |-> [k \in StdNums |-> fdt[k]], phase |-> "backed", io |-> b, dups |-> r.bk]
             ELSE Other
  /\ UNCHANGED <<pc, frame>>

RestoreFildescs(b) ==
  /\ LiveIo(b)
  /\ LET r == ProcIO_restore_fildescs(World, io[b].backup)
     IN /\ SetWorld(r.w)
        /\ io' = [io EXCEPT ![b].backup = r.bk]
        /\ IoDone("restore_fildescs", b, 0, r.res)
        /\ IF r.res = "Ok" /\ snap.phase = "backed" /\ snap.io = b
             THEN snap' = [snap EXCEPT !.phase = "restored"]
             ELSE Other
  /\ UNCHANGED <<pc, frame>>

\* ------------------------------------------------------------- RshWait
Codes == {0, 1, 127}
Sigs  == {"SIGINT", "SIGKILL"}
Names == {"ls", "nosuch"}
None  == "None"

Success       == [s |-> "Success"]
Fail(code, c) == [s |-> "Fail", code |-> code, cmd |-> c]
Signaled(sig) == [s |-> "Signaled", sig |-> sig]
RshWait_new   == Success

\* the control statuses: return from a function, restart a loop, break a
\* loop, exit the shell
SIGRETURN  == [s |-> "SIGRETURN"]
SIGCONT    == [s |-> "SIGCONT"]
SIGBREAK   == [s |-> "SIGBREAK"]
SIGRSHEXIT == [s |-> "SIGRSHEXIT"]

\* ShellEnv::new: parameters: HashMap::new()
Env_new == [params |-> <<>>, argv |-> <<>>, snapshot |-> <<>>,
            body |-> <<>>, script |-> <<>>, found |-> FALSE,
            flags |-> {}, aliases |-> {}, functions |-> {},
            variables |-> <<>>, expand |-> [on |-> FALSE, working |-> <<>>, product |-> <<>>]]

\* handle_redirs not called yet
NoRedirs == [st |-> "none", redirs |-> <<>>, log |-> <<>>, fd_queue |-> <<>>, res |-> "Ok",
             after |-> <<>>]

\* a walker call that returned Err(ShError), and no result yet
Err   == [s |-> "Err"]
NoRes == [s |-> "None"]

\* no node dispatched, the shell process in its own logic, no child
NoProc == [seq |-> 0, kind |-> "none", pipe |-> FALSE, bg |-> FALSE, name |-> None,
           inlined |-> FALSE, forks |-> 0, me |-> "shell", mecode |-> 0,
           child |-> "none", code |-> 0, sig |-> None, tty |-> "self",
           status |-> Success, children |-> 0, body |-> NoRes, waits |-> 0]

\* JobTable::new(); an Option is a sequence of at most one element, the map
\* is a function from the ids it holds; out is what the print_jobs call made
\* so far was given and wrote (none yet)
JobTable_new == [fg |-> <<>>, jobs |-> <<>>, curr_job |-> <<>>, updated_since_check |-> <<>>,
                 out |-> <<>>]

\* ExecDispatcher::run before it takes its first tree: the trees queued in the
\* channel behind its inbox, whether every sender is gone, the trees walked,
\* let mut status = RshWait::new()
Dispatcher_new == [taken |-> 0, status |-> RshWait_new, at |-> "inbox",
                   inbox |-> <<>>, closed |-> FALSE]

\* no tree received
NoWalk == [node |-> [kind |-> "none"], script |-> <<>>, done |-> FALSE,
           evals |-> <<>>, binds |-> <<>>, res |-> NoRes]

Init ==
  /\ proc = NoProc
  /\ job_table = JobTable_new
  /\ walk = NoWalk
  /\ run = Dispatcher_new
  /\ env = Env_new
  /\ rd = NoRedirs
  /\ fdt = StdTable
  /\ fd = [i \in Inst |-> -1]
  /\ st = [i \in Inst |-> "free"]
  /\ closedOk = [i \in Inst |-> FALSE]
  /\ ncloses = [i \in Inst |-> 0]
  /\ last = Op("init", NoInst, 0, "Ok")
  /\ ops = 0
  /\ ioops = 0
  /\ io = [b \in Io |-> NoIo]
  /\ pc = "idle"
  /\ frame = [kind |-> "none", io |-> 0, memfd |-> NoInst, launches |-> 0,
              backups |-> 0, plumbs |-> 0, restores |-> 0]
  /\ snap = [tab |-> [k \in StdNums |-> Closed], phase |-> "dirty", io |-> 0, dups |-> EmptyBackup]

\* ------------------------------------------------------- launch frames
\* A bundle going out of scope: each Arc it holds is released (the value is
\* dropped when no other bundle holds it), then the backup table is dropped.
Shared(b, h) == \E c \in Io \ {b} : io[c].st = "live" /\ h \in {io[c].stdin, io[c].stdout, io[c].stderr}
ReleaseSlot(w, b, h) ==
  IF h = NoInst \/ w.st[h] # "live" \/ Shared(b, h) THEN w ELSE RustFd_drop(w, h)
ProcIO_drop(w, b, bk) ==
  DropBackup(ReleaseSlot(ReleaseSlot(ReleaseSlot(w, b, io[b].stdin), b, io[b].stdout), b, io[b].stderr),
             bk)

Step(o, r) == /\ last' = Op(o, frame.io, 0, r)
              /\ UNCHANGED <<ops, ioops, ctl>>
              /\ Other

\* the handler returns: its memfd and its bundle go out of scope
Return(w) ==
  /\ SetWorld(ProcIO_drop(DropEntry(w, frame.memfd), frame.io, io[frame.io].backup))
  /\ io' = [io EXCEPT ![frame.io] = [NoIo EXCEPT !.st = "dropped"]]
  /\ pc' = "idle"

\* SavedEnv::get_snapshot, SavedEnv::restore_snapshot, reset_params and
\* set_param on the positional parameters
get_snapshot(e) == [e EXCEPT !.snapshot = e.params]
restore_snapshot(e) == [e EXCEPT !.params = e.snapshot]
reset_params(e) == [e EXCEPT !.params = <<>>]
set_param(e, k, param) ==
  [e EXCEPT !.params = [i \in 1 .. (IF k > Len(@) THEN k ELSE Len(@)) |-> IF i = k THEN param ELSE @[i]]]

\* for (index,param) in pos_params.into_iter().enumerate() { set_param(index + 1, param) }
RECURSIVE set_params_from(_, _)
set_params_from(e, index) ==
  IF index >= Len(e.argv) THEN e
  ELSE set_params_from(set_param(e, index + 1, e.argv[index + 1]), index + 1)

\* what a handler does to the shell state before it reaches fork_instruction!
handler_entry(kind, e) ==
  CASE kind = "function" -> set_params_from(reset_params(get_snapshot(e)), 0)
    [] kind = "subshell" -> reset_params(get_snapshot(e))
    [] OTHER -> e

\* $parent_instr
parent_instr(kind, e) == IF kind = "command" THEN e ELSE restore_snapshot(e)

\* handle_command, handle_function, handle_subshell are entered with bundle b
Launch(kind, b) ==
  /\ pc = "idle" /\ LiveIo(b) /\ frame.launches < MaxLaunch
  /\ frame' = [kind |-> kind, io |-> b, memfd |-> NoInst, launches |-> frame.launches + 1,
               backups |-> 0, plumbs |-> 0, restores |-> 0]
  /\ env' = handler_entry(kind, env)
  /\ pc' = IF kind = "subshell" THEN "sub_memfd" ELSE "fi_backup"
  /\ last' = Op("launch", b, 0, "Ok")
  /\ Other
  /\ UNCHANGED <<fdvars, ops, ioops, io, proc, job_table, walk, run, rd>>

\* handle_subshell: RustFd::new_memfd(..)? and memfd.write(..)?, which fails on
\* a memfd is_valid() rejects
SubMemfd(sysOk) ==
  /\ pc = "sub_memfd" /\ FreeInst # {}
  /\ LET got == sysOk /\ HasFree(fdt)
         n   == IF got THEN LowestFree(fdt) ELSE -1
         w   == WMake(World, IF got THEN [fdt EXCEPT ![n] = "memfd"] ELSE fdt, n)
     IN IF is_valid(n)
          THEN /\ SetWorld(w)
               /\ frame' = [frame EXCEPT !.memfd = NextInst]
               /\ pc' = "sub_backup"
               /\ Step("new_memfd", "Ok")
               /\ UNCHANGED io
          ELSE /\ Return(RustFd_drop(w, NextInst))
               /\ Step("new_memfd", "Err")
               /\ UNCHANGED frame

\* io.backup_fildescs()? at the given position of the handler or the macro
FrameBackup(at, next) ==
  /\ pc = at /\ Cardinality(FreeInst) >= 3
  /\ LET r == ProcIO_backup_fildescs(World, io[frame.io].backup)
     IN /\ frame' = [frame EXCEPT !.backups = @ + 1]
        /\ Step("backup_fildescs", r.res)
        /\ IF r.res = "Ok"
             THEN /\ SetWorld(r.w)
                  /\ io' = [io EXCEPT ![frame.io].backup = r.bk]
                  /\ pc' = next
             ELSE Return(r.w)

\* io.do_plumbing()? at the given position
FramePlumb(at, next) ==
  /\ pc = at
  /\ LET r == ProcIO_do_plumbing(World, io[frame.io])
     IN /\ frame' = [frame EXCEPT !.plumbs = @ + 1]
        /\ Step("do_plumbing", r.res)
        /\ IF r.res = "Ok"
             THEN /\ SetWorld(r.w)
                  /\ pc' = next
                  /\ UNCHANGED io
             ELSE Return(r.w)

SubBackup == FrameBackup("sub_backup", "sub_plumb")
SubPlumb  == FramePlumb("sub_plumb", "fi_backup")
FiBackup  == FrameBackup("fi_backup", "fi_plumb")
FiPlumb   == FramePlumb("fi_plumb", "fi_fork")

\* fork_instruction!, the fork as the shell process sees it: a failed fork
\* returns the error at once; otherwise the macro goes on to the restore
FiFork(forked) ==
  /\ pc = "fi_fork"
  /\ IF forked
       THEN /\ pc' = "fi_restore"
            /\ Step("fork", "Ok")
            /\ UNCHANGED <<fdvars, io>>
       ELSE /\ Return(World)
            /\ Step("fork", "Err")
  /\ UNCHANGED frame

\* $io.restore_fildescs()? and the return of the status
FiRestore ==
  /\ pc = "fi_restore"
  /\ LET r == ProcIO_restore_fildescs(World, io[frame.io].backup)
     IN /\ frame' = [frame EXCEPT !.restores = @ + 1]
        /\ Step("restore_fildescs", r.res)
        /\ SetWorld(ProcIO_drop(DropEntry(r.w, frame.memfd), frame.io, r.bk))
        /\ io' = [io EXCEPT ![frame.io] = [NoIo EXCEPT !.st = "dropped"]]
        /\ pc' = "idle"

\* for node in &deck { traverse(node.clone(), io.clone()) } with a command
\* as the child: the bundle b of the Root (a loop hands each run of its body
\* a clone in the same way) is cloned and handle_command is entered with the
\* clone, which holds the same handles; an error of the child before ends
\* the loop (?), and the clone of that child was dropped when its launch
\* returned
GoneIo == {c \in Io : io[c].st \in {"free", "dropped"}}
RootChild(b) ==
  /\ pc = "idle" /\ LiveIo(b) /\ io[b].cloneOf = 0 /\ frame.launches < MaxLaunch
  /\ frame.launches > 0 => (last.op = "restore_fildescs" /\ last.res = "Ok")
  /\ GoneIo # {}
  /\ LET c == CHOOSE x \in GoneIo : \A y \in GoneIo : x <= y
         r == ProcIO_clone(World, io[b], b)
     IN /\ SetWorld(r.w)
        /\ io' = [io EXCEPT ![c] = r.io]
        /\ frame' = [kind |-> "command", io |-> c, memfd |-> NoInst,
                     launches |-> frame.launches + 1,
                     backups |-> 0, plumbs |-> 0, restores |-> 0]
        /\ last' = Op("launch", c, b, "Ok")
  /\ pc' = "fi_backup"
  /\ Other
  /\ UNCHANGED <<ops, ioops, ctl>>

\* ------------------------------------------------ fork_instruction!
IsTty(r) == r \in {"tty_in", "tty_out", "tty_err"}

\* traverse hands a Command or Subshell node with its flags to its handler
Dispatch(kind, pipe, bg, name) ==
  /\ pc = "idle" /\ proc.me = "shell" /\ frame.launches < MaxLaunch
  /\ proc.seq # frame.launches + 1
  /\ proc' = [proc EXCEPT !.seq = frame.launches + 1, !.kind = kind, !.pipe = pipe, !.bg = bg,
                          !.name = name, !.inlined = FALSE, !.forks = 0, !.child = "none",
                          !.code = 0, !.sig = None, !.status = RshWait_new,
                          !.body = NoRes, !.waits = 0]
  /\ last' = Op("traverse", 0, 0, "Ok")
  /\ UNCHANGED <<fdvars, ops, ioops, io, pc, frame, snap, job_table, walk, aux>>

\* let cmd = ..: the command's name, None for a function call or a subshell
cmd == IF frame.kind = "command" THEN proc.name ELSE None

\* what $child_instr does in the process that runs it, by handler:
\*   handle_command   handle_redirs(..)?; let Err(_) = execvpe(..);
\*   handle_function  traverse_root(func, ..); std::process::exit(0);
\*   handle_subshell  handle_redirs(..)?; execve(..); std::process::exit(127);
child_instr(kind, redirOk, execOk) ==
  CASE kind = "function" -> "exit0"
    [] kind # "function" /\ ~redirOk -> "return_err"
    [] kind # "function" /\ redirOk /\ execOk -> "replaced"
    [] kind = "command" /\ redirOk /\ ~execOk -> "fallthrough"
    [] OTHER -> "exit127"

\* if IN_PIPE { $child_instr; } : the child branch runs in the launching process
FiInPipe(redirOk, execOk) ==
  /\ pc = "fi_fork" /\ proc.pipe /\ ~proc.inlined
  /\ LET o == child_instr(frame.kind, redirOk, execOk)
     IN /\ last' = Op("child_instr", frame.io, 0, IF o = "return_err" THEN "Err" ELSE "Ok")
        /\ CASE o = "return_err" ->
                   Return(World) /\ UNCHANGED proc
             [] o = "fallthrough" ->
                   /\ proc' = [proc EXCEPT !.inlined = TRUE]
                   /\ UNCHANGED <<fdvars, io, pc>>
             [] o = "replaced" ->
                   /\ proc' = [proc EXCEPT !.me = "replaced"]
                   /\ pc' = "gone"
                   /\ UNCHANGED <<fdvars, io>>
             [] OTHER ->
                   /\ proc' = [proc EXCEPT !.me = "exited", !.mecode = IF o = "exit0" THEN 0 ELSE 127]
                   /\ pc' = "gone"
                   /\ UNCHANGED <<fdvars, io>>
  /\ Other
  /\ UNCHANGED <<ops, ioops, frame, job_table, walk, aux>>

\* the BACKGROUND arm: add_child, fork, and in the parent add_child and
\* $parent_instr, which is restore_snapshot()? for functions and subshells
FiForkBg(forked, parentOk) ==
  /\ pc = "fi_fork" /\ (proc.pipe => proc.inlined) /\ proc.bg
  /\ IF ~forked
       THEN /\ proc' = [proc EXCEPT !.children = @ + 1]
            /\ last' = Op("fork", frame.io, 0, "Err")
            /\ Return(World)
            /\ UNCHANGED env
       ELSE /\ proc' = [proc EXCEPT !.children = @ + 2, !.forks = @ + 1, !.child = "branch"]
            /\ IF parentOk \/ frame.kind = "command"
                 THEN /\ last' = Op("fork", frame.io, 0, "Ok")
                      /\ env' = parent_instr(frame.kind, env)
                      /\ pc' = "fi_restore"
                      /\ UNCHANGED <<fdvars, io>>
                 ELSE /\ last' = Op("parent_instr", frame.io, 0, "Err")
                      /\ Return(World)
                      /\ UNCHANGED env
  /\ Other
  /\ UNCHANGED <<ops, ioops, frame, job_table, walk, run, rd>>

\* the foreground arm up to the wait: fork, setpgid, tcsetpgrp(0, child)?,
\* $parent_instr
FiForkFg(forked, ttyOk, parentOk) ==
  /\ pc = "fi_fork" /\ (proc.pipe => proc.inlined) /\ ~proc.bg
  /\ IF ~forked
       THEN /\ last' = Op("fork", frame.io, 0, "Err")
            /\ Return(World)
            /\ UNCHANGED <<proc, env>>
       ELSE IF ~(ttyOk /\ IsTty(fdt[0]))
         THEN /\ proc' = [proc EXCEPT !.forks = @ + 1, !.child = "branch"]
              /\ last' = Op("tcsetpgrp", frame.io, 0, "Err")
              /\ Return(World)
              /\ UNCHANGED env
         ELSE /\ proc' = [proc EXCEPT !.forks = @ + 1, !.child = "branch", !.tty = "child"]
              /\ IF parentOk \/ frame.kind = "command"
                   THEN /\ last' = Op("fork", frame.io, 0, "Ok")
                        /\ env' = parent_instr(frame.kind, env)
                        /\ pc' = "fi_wait"
                        /\ UNCHANGED <<fdvars, io>>
                   ELSE /\ last' = Op("parent_instr", frame.io, 0, "Err")
                        /\ Return(World)
                        /\ UNCHANGED env
  /\ Other
  /\ UNCHANGED <<ops, ioops, frame, job_table, walk, run, rd>>

\* what the walk of a function's body returns in the child
BodyResults == {Success, Fail(1, None), SIGRETURN, Err}

\* let mut result = traverse_root(func, None, io.clone()); ..;
\* std::process::exit(0): the code the function's child exits with
function_exit_bystatus(result) == IF result \in {Success, SIGRETURN} THEN 0 ELSE 1

function_exit(result) == 0

\* the forked child runs $child_instr; in the foreground arm
\* std::process::exit(127) follows it, in the background arm nothing does and
\* the child goes on to restore_fildescs and returns the status to its caller
ChildBranch(redirOk, execOk) ==
  /\ proc.child = "branch"
  /\ \E result \in IF frame.kind = "function" THEN BodyResults ELSE {NoRes} :
       LET o == child_instr(frame.kind, redirOk, execOk)
       IN proc' = CASE o = "return_err" -> [proc EXCEPT !.child = "walker"]
                    [] o = "replaced" -> [proc EXCEPT !.child = "running"]
                    [] o = "fallthrough" /\ proc.bg -> [proc EXCEPT !.child = "walker"]
                    [] o = "exit0" -> [proc EXCEPT !.child = "exited", !.body = result,
                                                   !.code = function_exit(result)]
                    [] OTHER -> [proc EXCEPT !.child = "exited", !.code = 127]
  /\ UNCHANGED <<fdvars, last, ops, ioops, io, pc, frame, snap, job_table, walk, aux>>

\* the program the child became, or the copy of the shell it stayed, exits
ChildExit(code) ==
  /\ proc.child \in {"running", "walker"}
  /\ proc' = [proc EXCEPT !.child = "exited", !.code = code]
  /\ UNCHANGED <<fdvars, last, ops, ioops, io, pc, frame, snap, job_table, walk, aux>>

\* the child is terminated by a signal
ChildSignal(sig) ==
  /\ proc.child \in {"branch", "running", "walker"}
  /\ proc' = [proc EXCEPT !.child = "signaled", !.sig = sig]
  /\ UNCHANGED <<fdvars, last, ops, ioops, io, pc, frame, snap, job_table, walk, aux>>

\* the match on what waitpid(child, None) returned
fi_status_nocmd(out, code, sig, c) ==
  IF out = "exited"
    THEN IF code = 0 THEN Success ELSE Fail(code, None)
    ELSE Signaled(sig)

fi_status(out, code, sig, c) ==
  IF out = "exited"
    THEN IF code = 0 THEN Success ELSE Fail(code, c)
    ELSE Signaled(sig)

\* the wait loop returns once the child has ended, then
\* tcsetpgrp(0, getpid()).unwrap()
FiWait(ttyOk) ==
  /\ pc = "fi_wait" /\ proc.child \in {"exited", "signaled"}
  /\ IF ttyOk
       THEN /\ proc' = [proc EXCEPT !.status = fi_status(proc.child, proc.code, proc.sig, cmd),
                                    !.tty = "self", !.waits = @ + 1]
            /\ pc' = "fi_restore"
            /\ last' = Op("waitpid", frame.io, 0, "Ok")
       ELSE /\ proc' = [proc EXCEPT !.status = fi_status(proc.child, proc.code, proc.sig, cmd),
                                    !.me = "panicked", !.waits = @ + 1]
            /\ pc' = "gone"
            /\ last' = Op("waitpid", frame.io, 0, "panic")
  /\ Other
  /\ UNCHANGED <<fdvars, ops, ioops, io, frame, job_table, walk, aux>>

\* the errors waitpid(child, None) returns
Errnos == {"EINTR", "ECHILD", "EINVAL"}

\* the arm of the match an error of waitpid takes: Err(EINTR) => continue,
\* Err(err) => panic!(..)
wait_arm_spin(errno) == "continue"

wait_arm(errno) == IF errno = "EINTR" THEN "continue" ELSE "panic"

\* one iteration of the wait loop in which waitpid returns an error; a signal
\* interrupts the call only while it blocks, that is while the child has not
\* ended. (Ok(_) => unimplemented!() is not reachable: without WUNTRACED,
\* WCONTINUED or WNOHANG waitpid reports only Exited and Signaled.)
FiWaitErr(errno) ==
  /\ pc = "fi_wait" /\ proc.waits < MaxEintr
  /\ errno = "EINTR" => proc.child \notin {"exited", "signaled"}
  /\ last' = Op("waitpid", frame.io, 0, errno)
  /\ IF wait_arm(errno) = "continue"
       THEN /\ proc' = [proc EXCEPT !.waits = @ + 1]
            /\ UNCHANGED pc
       ELSE /\ proc' = [proc EXCEPT !.waits = @ + 1, !.me = "panicked"]
            /\ pc' = "gone"
  /\ Other
  /\ UNCHANGED <<fdvars, ops, ioops, io, frame, job_table, walk, aux>>

\* ------------------------------------------------------- the tree walker
\* The children of the control-flow nodes are Roots whose own children are
\* leaves. A walk carries e = [script, evals, binds]: the statuses the leaves
\* are going to return, in the order they are evaluated (a leaf evaluated
\* after the script's end returns Err), the leaves evaluated so far with what
\* they returned, and the variables set so far.
WalkStatus == {Success, Fail(1, None), Signaled("SIGINT")}
Words      == {"a", "b"}
Ops        == {"And", "Or"}
Lab(blk, it, i) == [blk |-> blk, it |-> it, i |-> i]
Ret(e, r)  == [e |-> e, res |-> r]

\* traverse on a leaf
traverse(e, lab) ==
  IF e.script = <<>>
    THEN Ret([e EXCEPT !.evals = Append(@, [l |-> lab, s |-> Err])], Err)
    ELSE Ret([e EXCEPT !.script = Tail(@),
                       !.evals = Append(@, [l |-> lab, s |-> Head(e.script)])],
             Head(e.script))

\* for node in &deck { last_status = traverse(..)?; if let Some(condition) .. }
RECURSIVE deck_from(_, _, _, _, _, _, _)
deck_from(e, blk, it, n, break_condition, i, last_status) ==
  IF i > n
    THEN Ret(e, last_status)
    ELSE LET r == traverse(e, Lab(blk, it, i))
         IN IF r.res = Err THEN r
            ELSE IF break_condition = "true" /\ r.res.s = "Fail" THEN r
            ELSE IF break_condition = "false" /\ r.res = Success THEN r
            ELSE deck_from(r.e, blk, it, n, break_condition, i + 1, r.res)

\* the Root is the block blk of iteration or pair it, with n children;
\* break_condition is "None", "true" or "false"
traverse_root_nobreak(e, blk, it, n, break_condition) ==
  deck_from(e, blk, it, n, "None", 1, RshWait_new)

traverse_root(e, blk, it, n, break_condition) ==
  deck_from(e, blk, it, n, break_condition, 1, RshWait_new)

handle_chain_both(e, op) ==
  LET l == traverse(e, Lab("left", 0, 1))
  IN IF l.res = Err THEN l ELSE traverse(l.e, Lab("right", 0, 1))

handle_chain(e, op) ==
  LET l == traverse(e, Lab("left", 0, 1))
  IN IF l.res = Err THEN l
     ELSE IF l.res = Success
       THEN IF op = "And" THEN traverse(l.e, Lab("right", 0, 1)) ELSE l
       ELSE IF op = "Or" THEN traverse(l.e, Lab("right", 0, 1)) ELSE l

\* while let Some(block) = cond_blocks.pop_front() { .. } and the else block
RECURSIVE if_from(_, _, _, _, _, _, _)
if_from_success(e, k, pairs, nc, nb, has_else, last_status) ==
  IF k > pairs
    THEN IF has_else THEN traverse_root(e, "else", 0, nb, "None") ELSE Ret(e, RshWait_new)
    ELSE LET c == traverse_root(e, "cond", k, nc, "false")
         IN IF c.res = Err THEN c
            ELSE IF c.res = Success
              THEN traverse_root(c.e, "body", k, nb, "None")
              ELSE if_from(c.e, k + 1, pairs, nc, nb, has_else, c.res)

if_from_noreturn(e, k, pairs, nc, nb, has_else, last_status) ==
  IF k > pairs
    THEN IF has_else THEN traverse_root(e, "else", 0, nb, "None") ELSE Ret(e, last_status)
    ELSE LET c == traverse_root(e, "cond", k, nc, "false")
         IN IF c.res = Err THEN c
            ELSE IF c.res = Success
              THEN LET b == traverse_root(c.e, "body", k, nb, "None")
                   IN IF b.res = Err THEN b
                      ELSE if_from(b.e, k + 1, pairs, nc, nb, has_else, b.res)
              ELSE if_from(c.e, k + 1, pairs, nc, nb, has_else, c.res)

if_from(e, k, pairs, nc, nb, has_else, last_status) ==
  IF k > pairs
    THEN IF has_else THEN traverse_root(e, "else", 0, nb, "None") ELSE Ret(e, last_status)
    ELSE LET c == traverse_root(e, "cond", k, nc, "false")
         IN IF c.res = Err THEN c
            ELSE IF c.res = Success
              THEN traverse_root(c.e, "body", k, nb, "None")
              ELSE if_from(c.e, k + 1, pairs, nc, nb, has_else, c.res)

handle_if(e, node) ==
  if_from(e, 1, node.pairs, node.nc, node.nb, node.else, RshWait_new)

\* loop { condition_status = ..; match condition { .. break }; last_status = .. }
RECURSIVE loop_from(_, _, _, _, _, _)
loop_from_bodyfirst(e, it, condition, nc, nb, last_status) ==
  LET b == traverse_root(e, "body", it, nb, "None")
  IN IF b.res = Err THEN b
     ELSE LET c == traverse_root(b.e, "cond", it, nc, IF condition THEN "true" ELSE "false")
          IN IF c.res = Err THEN c
             ELSE IF (condition /\ c.res # Success) \/ (~condition /\ c.res = Success)
               THEN Ret(c.e, b.res)
               ELSE loop_from(c.e, it + 1, condition, nc, nb, b.res)

loop_from(e, it, condition, nc, nb, last_status) ==
  LET c == traverse_root(e, "cond", it, nc, IF condition THEN "true" ELSE "false")
  IN IF c.res = Err THEN c
     ELSE IF (condition /\ c.res # Success) \/ (~condition /\ c.res = Success)
       THEN Ret(c.e, last_status)
       ELSE LET b == traverse_root(c.e, "body", it, nb, "None")
            IN IF b.res = Err THEN b
               ELSE loop_from(b.e, it + 1, condition, nc, nb, b.res)

handle_loop(e, node) ==
  loop_from(e, 1, node.condition, node.nc, node.nb, RshWait_new)

\* the token at place t of the iteration list, which expands to n words
Tk(t, n) == [id |-> t, n |-> n]
expand_token(token) == [w \in 1 .. token.n |-> <<token.id, w>>]

\* while let Some(token) = loop_arr.pop_front() { arr_buffer gets its expansion }
RECURSIVE arr_buffer(_, _)
arr_buffer(sizes, t) ==
  IF t > Len(sizes) THEN <<>>
  ELSE expand_token(Tk(t, sizes[t])) \o arr_buffer(sizes, t + 1)

\* while !loop_arr.is_empty() { set the variable, count, run the body }
RECURSIVE for_from(_, _, _, _, _, _, _)
for_from_latecount(e, loop_arr, var_count, var_index, iteration_count, nb, last_status) ==
  IF loop_arr = <<>>
    THEN Ret(e, last_status)
    ELSE LET e1 == [e EXCEPT !.binds = Append(@, [var |-> var_index, val |-> Head(loop_arr),
                                                  at |-> Len(e.evals)])]
             b  == traverse_root(e1, "body", iteration_count + 1, nb, "None")
         IN IF b.res = Err THEN b
            ELSE for_from(b.e, Tail(loop_arr), var_count, iteration_count % var_count,
                          iteration_count + 1, nb, b.res)

for_from(e, loop_arr, var_count, var_index, iteration_count, nb, last_status) ==
  IF loop_arr = <<>>
    THEN Ret(e, last_status)
    ELSE LET e1 == [e EXCEPT !.binds = Append(@, [var |-> var_index, val |-> Head(loop_arr),
                                                  at |-> Len(e.evals)])]
             b  == traverse_root(e1, "body", iteration_count + 1, nb, "None")
         IN IF b.res = Err THEN b
            ELSE for_from(b.e, Tail(loop_arr), var_count, (iteration_count + 1) % var_count,
                          iteration_count + 1, nb, b.res)

handle_for(e, node) ==
  for_from(e, arr_buffer(node.loop_arr, 1), node.vars, 0, 0, node.nb, RshWait_new)

\* for case in cases { if pat == input_var.text() { return traverse_root(..) } }
RECURSIVE case_from(_, _, _, _, _)
case_from_all(e, input_var, cases, k, nb) ==
  IF k > Len(cases)
    THEN Ret(e, Fail(1, "case"))
    ELSE IF cases[k] = input_var
      THEN LET b == traverse_root(e, "body", k, nb, "None")
           IN IF b.res = Err \/ k = Len(cases) THEN b
              ELSE LET r == case_from(b.e, input_var, cases, k + 1, nb)
                   IN IF r.res = Fail(1, "case") THEN Ret(r.e, b.res) ELSE r
      ELSE case_from(e, input_var, cases, k + 1, nb)

case_from(e, input_var, cases, k, nb) ==
  IF k > Len(cases)
    THEN Ret(e, Fail(1, "case"))
    ELSE IF cases[k] = input_var
      THEN traverse_root(e, "body", k, nb, "None")
      ELSE case_from(e, input_var, cases, k + 1, nb)

handle_case(e, node) == case_from(e, node.input_var, node.cases, 1, node.nb)

\* the trees and the scripts the walker is given
SeqsUpTo(S, n) == UNION {[1 .. m -> S] : m \in 0 .. n}
Scripts == SeqsUpTo(WalkStatus, MaxScript)
Roots   == [kind : {"Root"}, n : 0 .. MaxDeck, break_condition : {"None", "true", "false"}]
Chains  == [kind : {"Chain"}, op : Ops]
Ifs     == [kind : {"If"}, pairs : 0 .. MaxPairs, nc : 1 .. MaxDeck, nb : 1 .. MaxDeck, else : BOOLEAN]
Loops   == [kind : {"Loop"}, condition : BOOLEAN, nc : 1 .. MaxDeck, nb : 0 .. MaxDeck]
Fors    == [kind : {"For"}, vars : 1 .. MaxVars, loop_arr : SeqsUpTo(0 .. MaxWords, MaxToks), nb : {1}]
Cases   == [kind : {"Case"}, input_var : Words, cases : SeqsUpTo(Words, MaxPairs), nb : 1 .. MaxDeck]

\* the most leaves a walk of the tree can evaluate
RECURSIVE Sum(_, _)
Sum(f, t) == IF t > Len(f) THEN 0 ELSE f[t] + Sum(f, t + 1)
Leaves(node) ==
  CASE node.kind = "Root"  -> node.n
    [] node.kind = "Chain" -> 2
    [] node.kind = "If"    -> node.pairs * node.nc + node.nb
    [] node.kind = "For"   -> Sum(node.loop_arr, 1) * node.nb
    [] node.kind = "Case"  -> node.nb
    [] OTHER               -> MaxScript

\* a tree arrives with the statuses its leaves are going to return
Receive(node, script) ==
  /\ walk.node.kind = "none"
  /\ Len(script) <= Leaves(node)
  /\ walk' = [NoWalk EXCEPT !.node = node, !.script = script]
  /\ UNCHANGED <<fdvars, last, ops, ioops, io, pc, frame, snap, proc, job_table, aux>>

\* the handler of the tree's kind runs to its return
Walk(kind, r) ==
  /\ walk.node.kind = kind /\ ~walk.done
  /\ walk' = [walk EXCEPT !.done = TRUE, !.evals = r.e.evals, !.binds = r.e.binds, !.res = r.res]
  /\ UNCHANGED <<fdvars, last, ops, ioops, io, pc, frame, snap, proc, job_table, aux>>

Walk0 == [script |-> walk.script, evals |-> <<>>, binds |-> <<>>]

WalkRoot  == Walk("Root", traverse_root(Walk0, "deck", 0, walk.node.n, walk.node.break_condition))
WalkChain == Walk("Chain", handle_chain(Walk0, walk.node.op))
WalkIf    == Walk("If", handle_if(Walk0, walk.node))
WalkLoop  == Walk("Loop", handle_loop(Walk0, walk.node))
WalkFor   == Walk("For", handle_for(Walk0, walk.node))
WalkCase  == Walk("Case", handle_case(Walk0, walk.node))

\* --------------------------------------------------------- handle_redirs
\* Redir { fd_source, op, fd_target, file_target }: fd_target is -1 for None
Files == {"f1", "f2"}
PathRedir(s, f) == [fd_source |-> s, fd_target |-> -1, file_target |-> f]
FdRedir(s, t)   == [fd_source |-> s, fd_target |-> t, file_target |-> None]
Directives == {PathRedir(s, f) : s \in StdNums, f \in Files}
                \cup {FdRedir(s, t) : s \in StdNums, t \in StdNums}

\* the call's locals: the world, fd_queue, fd_dupes (places in the input), and
\* the directives applied so far with what their source referred to before
Redirs0(w) == [w |-> w, res |-> "Ok", fd_queue |-> <<>>, fd_dupes |-> <<>>, log |-> <<>>]

\* values going out of scope, in the order given
RECURSIVE drop_all(_, _)
drop_all(w, q) == IF q = <<>> THEN w ELSE drop_all(RustFd_drop(w, Head(q)), Tail(q))

\* a `?` that returns: the iteration's locals are dropped, then fd_queue
redirs_err(r, w, locals) ==
  [r EXCEPT !.w = drop_all(drop_all(w, locals), r.fd_queue), !.res = "Err", !.fd_queue = <<>>]

Applied(r, k, d) == [r EXCEPT !.log = Append(@, [k |-> k, was |-> r.w.t[d.fd_source]])]

\* RustFd::new(*fd_source)?; RustFd::open(..)?; file_fd.dup2(&source_fd)?;
\* file_fd.close()?; fd_queue.push_back(source_fd)
path_redir(r, k, d, openOk) ==
  LET source_fd == WNext(r.w)
      w1 == WMake(r.w, r.w.t, d.fd_source)
  IN IF ~(openOk /\ HasFree(w1.t)) THEN redirs_err(r, w1, <<source_fd>>)
     ELSE LET file_fd == WNext(w1)
              n  == LowestFree(w1.t)
              w2 == WMake(w1, [w1.t EXCEPT ![n] = d.file_target], n)
              dd == RustFd_dup2(w2, file_fd, d.fd_source)
          IN IF dd.res = "Err" THEN redirs_err(r, dd.w, <<file_fd, source_fd>>)
             ELSE LET c == RustFd_close(dd.w, file_fd)
                  IN IF c.res = "Err" THEN redirs_err(Applied(r, k, d), c.w, <<file_fd, source_fd>>)
                     ELSE [Applied(r, k, d) EXCEPT !.w = RustFd_drop(c.w, file_fd),
                                                   !.fd_queue = Append(@, source_fd)]

\* RustFd::new(fd_target.unwrap())?; RustFd::new(fd_source)?;
\* target_fd.dup2(&source_fd)?; target_fd.close()?; fd_queue.push_back(source_fd)
dupe_redir(r, k, d) ==
  LET target_fd == WNext(r.w)
      w1 == WMake(r.w, r.w.t, d.fd_target)
      source_fd == WNext(w1)
      w2 == WMake(w1, w1.t, d.fd_source)
      dd == RustFd_dup2(w2, target_fd, d.fd_source)
  IN IF dd.res = "Err" THEN redirs_err(r, dd.w, <<source_fd, target_fd>>)
     ELSE LET c == RustFd_close(dd.w, target_fd)
          IN IF c.res = "Err" THEN redirs_err(Applied(r, k, d), c.w, <<source_fd, target_fd>>)
             ELSE [Applied(r, k, d) EXCEPT !.w = RustFd_drop(c.w, target_fd),
                                           !.fd_queue = Append(@, source_fd)]

\* while let Some(redir_tk) = redirs.pop_front() { .. }
RECURSIVE paths_from(_, _, _, _)
paths_from(r, redirs, k, fail_at) ==
  IF k > Len(redirs) \/ r.res = "Err" THEN r
  ELSE IF redirs[k].fd_target >= 0
    THEN paths_from([r EXCEPT !.fd_dupes = Append(@, k)], redirs, k + 1, fail_at)
    ELSE paths_from(path_redir(r, k, redirs[k], k # fail_at), redirs, k + 1, fail_at)

\* while let Some(dupe_redir) = fd_dupes.pop_front() { .. }
RECURSIVE dupes_from(_, _)
dupes_from(r, redirs) ==
  IF r.fd_dupes = <<>> \/ r.res = "Err" THEN r
  ELSE dupes_from(dupe_redir([r EXCEPT !.fd_dupes = Tail(@)], Head(r.fd_dupes),
                             redirs[Head(r.fd_dupes)]), redirs)

\* every directive where it stands in the input
RECURSIVE inorder_from(_, _, _, _)
inorder_from(r, redirs, k, fail_at) ==
  IF k > Len(redirs) \/ r.res = "Err" THEN r
  ELSE IF redirs[k].fd_target >= 0
    THEN inorder_from(dupe_redir(r, k, redirs[k]), redirs, k + 1, fail_at)
    ELSE inorder_from(path_redir(r, k, redirs[k], k # fail_at), redirs, k + 1, fail_at)

handle_redirs_inorder(w, redirs, fail_at) == inorder_from(Redirs0(w), redirs, 1, fail_at)

\* fail_at is the place of the directive whose open fails, 0 for none
handle_redirs(w, redirs, fail_at) ==
  dupes_from(paths_from(Redirs0(w), redirs, 1, fail_at), redirs)

RedirSeqs == SeqsUpTo(Directives, MaxRedirs)

\* a handler calls handle_redirs and holds what it returns
HandleRedirs(redirs, fail_at) ==
  /\ rd.st = "none"
  /\ LET r == handle_redirs(World, redirs, fail_at)
     IN /\ SetWorld(r.w)
        /\ rd' = [st |-> "held", redirs |-> redirs, log |-> r.log, fd_queue |-> r.fd_queue,
                  res |-> r.res, after |-> r.w.t]
        /\ last' = Op("handle_redirs", NoInst, Len(redirs), r.res)
  /\ Other
  /\ UNCHANGED <<ops, ioops, io, pc, frame, proc, job_table, walk, run, env>>

\* the returned queue goes out of scope (handle_for: at once)
DropQueue ==
  /\ rd.st = "held"
  /\ SetWorld(drop_all(World, rd.fd_queue))
  /\ rd' = [rd EXCEPT !.st = "dropped"]
  /\ last' = Op("drop", NoInst, Len(rd.fd_queue), "Ok")
  /\ Other
  /\ UNCHANGED <<ops, ioops, io, pc, frame, proc, job_table, walk, run, env>>

\* ------------------------------------------------------------ Job, JobTable
Running == [s |-> "Running"]
Stopped == [s |-> "Stopped"]

\* Job::new
Job_new_onestatus(job_id, pids, commands, pgid) ==
  [job_id |-> job_id, pgid |-> pgid, pids |-> pids, commands |-> commands,
   statuses |-> <<Running>>, active |-> TRUE]

Job_new(job_id, pids, commands, pgid) ==
  [job_id |-> job_id, pgid |-> pgid, pids |-> pids, commands |-> commands,
   statuses |-> [i \in 1 .. Len(pids) |-> Running], active |-> TRUE]

\* Job::update_status; pid_index counts from 0
update_status(job, pid_index, new_stat) ==
  IF pid_index < Len(job.statuses)
    THEN [job EXCEPT !.statuses[pid_index + 1] = new_stat]
    ELSE job

\* Job::deactivate
deactivate_not(job) == job

deactivate(job) == [job EXCEPT !.active = FALSE]

\* JobTable::mark_updated
mark_updated(jt, id) == [jt EXCEPT !.updated_since_check = Append(@, id)]

\* ShellEnv::set_curr_job, ShellEnv::set_fg_job
set_curr_job(jt, job_id) ==
  IF DOMAIN jt.jobs # {} THEN [jt EXCEPT !.curr_job = <<job_id>>] ELSE jt
set_fg_job(jt, job) == [jt EXCEPT !.fg = <<job>>]

\* ShellEnv::new_job
new_job_fromlen(jt, pids, commands, pgid, fg) ==
  LET job_id == IF fg THEN 0 ELSE Cardinality(DOMAIN jt.jobs)
      job    == Job_new(job_id, pids, commands, pgid)
  IN IF job_id >= 1
       THEN set_curr_job([jt EXCEPT !.jobs = (job_id :> job) @@ @], job_id)
       ELSE set_fg_job(jt, job)

new_job(jt, pids, commands, pgid, fg) ==
  LET job_id == IF fg THEN 0 ELSE Cardinality(DOMAIN jt.jobs) + 1
      job    == Job_new(job_id, pids, commands, pgid)
  IN IF job_id >= 1
       THEN set_curr_job([jt EXCEPT !.jobs = (job_id :> job) @@ @], job_id)
       ELSE set_fg_job(jt, job)

\* jobs.sort_by_key(|job| job.job_id)
RECURSIVE sort_by_key(_)
sort_by_key(ids) ==
  IF ids = {} THEN <<>>
  ELSE LET m == CHOOSE x \in ids : \A y \in ids : x <= y
       IN <<m>> \o sort_by_key(ids \ {m})

\* for job in jobs { if job.is_active() { most_recent_still_running = Some(id) } }
RECURSIVE most_recent_from(_, _, _)
most_recent_first(jt, ids, most_recent_still_running) ==
  IF ids = <<>> THEN most_recent_still_running
  ELSE IF jt.jobs[Head(ids)].active /\ most_recent_still_running = <<>>
    THEN most_recent_from(jt, Tail(ids), <<Head(ids)>>)
    ELSE most_recent_from(jt, Tail(ids), most_recent_still_running)

most_recent_from(jt, ids, most_recent_still_running) ==
  IF ids = <<>> THEN most_recent_still_running
  ELSE IF jt.jobs[Head(ids)].active
    THEN most_recent_from(jt, Tail(ids), <<Head(ids)>>)
    ELSE most_recent_from(jt, Tail(ids), most_recent_still_running)

\* ShellEnv::update_curr_job
update_curr_job(jt) ==
  [jt EXCEPT !.curr_job = most_recent_from(jt, sort_by_key(DOMAIN jt.jobs), <<>>)]

\* the outcomes after which a member process is gone
Exited(stat) == stat.s \in {"Success", "Fail", "Signaled"}
AllExited(job) == \A i \in DOMAIN job.statuses : Exited(job.statuses[i])

\* the pid of stage i of the k-th pipeline launched in the background, of
\* the foreground pipeline for k = 0
PidOf(k, i) == 10 * k + i

\* a pipeline of n stages is launched: one pid and one command per stage,
\* the group is the first stage's
NewJob(n, fg) ==
  /\ IF fg THEN job_table.fg = <<>> ELSE Cardinality(DOMAIN job_table.jobs) < MaxJobs
  /\ LET k    == IF fg THEN 0 ELSE Cardinality(DOMAIN job_table.jobs) + 1
         pids == [i \in 1 .. n |-> PidOf(k, i)]
         commands == [i \in 1 .. n |-> "ls"]
     IN job_table' = new_job(job_table, pids, commands, pids[1], fg)
  /\ last' = Op("new_job", NoInst, IF fg THEN 1 ELSE 0, "Ok")
  /\ UNCHANGED <<fdvars, ops, ioops, io, pc, frame, snap, proc, walk, aux>>

\* the wait-reaping path: the status of one member is updated, the job is
\* marked inactive once all its members have exited
Reap(id, pid_index, new_stat) ==
  /\ Len(job_table.updated_since_check) < MaxReaps
  /\ pid_index < Len(job_table.jobs[id].statuses) =>
       ~Exited(job_table.jobs[id].statuses[pid_index + 1])
  /\ LET job == update_status(job_table.jobs[id], pid_index, new_stat)
         end == IF AllExited(job) THEN deactivate(job) ELSE job
     IN job_table' = mark_updated([job_table EXCEPT !.jobs[id] = end], id)
  /\ last' = Op("update_status", NoInst, 0, "Ok")
  /\ UNCHANGED <<fdvars, ops, ioops, io, pc, frame, snap, proc, walk, aux>>

UpdateCurrJob ==
  /\ job_table' = update_curr_job(job_table)
  /\ last' = Op("update_curr_job", NoInst, 0, "Ok")
  /\ UNCHANGED <<fdvars, ops, ioops, io, pc, frame, snap, proc, walk, aux>>

\* the flags of print_jobs that select jobs
JobFlags == SUBSET {"NEW_ONLY", "RUNNING", "STOPPED"}

\* for job in jobs { .. }: the ids printed; job.statuses.get(id as usize)
\* .unwrap() panics when the job has no status at place id (from 0)
RECURSIVE print_from(_, _, _, _)
print_from(jt, jobs, flags, printed) ==
  IF jobs = <<>> THEN [res |-> "Ok", printed |-> printed]
  ELSE LET id  == Head(jobs)
           job == jt.jobs[id]
       IN IF flags \cap {"RUNNING", "STOPPED"} # {} /\ id >= Len(job.statuses)
            THEN [res |-> "panic", printed |-> printed]
          ELSE IF "RUNNING" \in flags /\ job.statuses[id + 1] # Running
            THEN print_from(jt, Tail(jobs), flags, printed)
          ELSE IF "STOPPED" \in flags /\ job.statuses[id + 1] # Stopped
            THEN print_from(jt, Tail(jobs), flags, printed)
          ELSE print_from(jt, Tail(jobs), flags, Append(printed, id))

\* JobTable::print_jobs
print_jobs(jt, flags) ==
  LET jobs == IF "NEW_ONLY" \in flags
                THEN {id \in DOMAIN jt.jobs : \E i \in DOMAIN jt.updated_since_check :
                                                 jt.updated_since_check[i] = id}
                ELSE DOMAIN jt.jobs
      r == print_from(jt, sort_by_key(jobs), flags, <<>>)
  IN [jt EXCEPT !.updated_since_check = <<>>,
                !.out = <<[flags |-> flags, jobs |-> jobs, res |-> r.res, printed |-> r.printed]>>]

PrintJobs(flags) ==
  /\ job_table.out = <<>>
  /\ job_table' = print_jobs(job_table, flags)
  /\ last' = Op("print_jobs", NoInst, 0, job_table'.out[1].res)
  /\ UNCHANGED <<fdvars, ops, ioops, io, pc, frame, snap, proc, walk, aux>>

\* the positional parameters the statements before the call left, and the
\* arguments that follow the function's name in the call
ArgTails == SeqsUpTo(Words, MaxArgs)

SetParams(new_params) ==
  /\ pc = "idle" /\ frame.launches = 0 /\ proc.seq = 0 /\ env.params = <<>> /\ new_params # <<>>
  /\ env' = [env EXCEPT !.params = new_params]
  /\ UNCHANGED <<fdvars, last, ops, ioops, io, pc, frame, snap, proc, job_table, walk, run, rd>>

Argv(pos_params) ==
  /\ pc = "idle" /\ frame.launches = 0 /\ proc.seq = 0 /\ env.argv = <<>> /\ pos_params # <<>>
  /\ env' = [env EXCEPT !.argv = pos_params]
  /\ UNCHANGED <<fdvars, last, ops, ioops, io, pc, frame, snap, proc, job_table, walk, run, rd>>

\* --------------------------------- ShellEnv: aliases and functions
\* ShellEnv::get_alias, get_function: whether the table answers Some
get_alias(e, key) == IF "NO_ALIAS" \in e.flags THEN FALSE ELSE key \in e.aliases
get_function(e, name) == name \in e.functions

\* ShellEnv::set_alias, set_function: the result and the shell state
set_alias(e, key) ==
  IF get_function(e, key) THEN [res |-> "Err", e |-> e]
  ELSE [res |-> "Ok", e |-> [e EXCEPT !.aliases = @ \cup {key}]]
set_function(e, name) ==
  IF get_alias(e, name) THEN [res |-> "Err", e |-> e]
  ELSE [res |-> "Ok", e |-> [e EXCEPT !.functions = @ \cup {name}]]

SetAlias(key) ==
  /\ env' = set_alias(env, key).e
  /\ last' = Op("set_alias", NoInst, 0, set_alias(env, key).res)
  /\ UNCHANGED <<fdvars, ops, ioops, io, pc, frame, snap, proc, job_table, walk, run, rd>>

SetFunction(name) ==
  /\ env' = set_function(env, name).e
  /\ last' = Op("set_function", NoInst, 0, set_function(env, name).res)
  /\ UNCHANGED <<fdvars, ops, ioops, io, pc, frame, snap, proc, job_table, walk, run, rd>>

\* ShellEnv::remove_alias, remove_function
RemoveAlias(key) ==
  /\ env' = [env EXCEPT !.aliases = @ \ {key}]
  /\ last' = Op("remove_alias", NoInst, 0, "Ok")
  /\ UNCHANGED <<fdvars, ops, ioops, io, pc, frame, snap, proc, job_table, walk, run, rd>>

RemoveFunction(name) ==
  /\ env' = [env EXCEPT !.functions = @ \ {name}]
  /\ last' = Op("remove_function", NoInst, 0, "Ok")
  /\ UNCHANGED <<fdvars, ops, ioops, io, pc, frame, snap, proc, job_table, walk, run, rd>>

\* ShellEnv::set_flags, unset_flags with EnvFlags::NO_ALIAS
SetFlags(flags) ==
  /\ env' = [env EXCEPT !.flags = @ \cup flags]
  /\ last' = Op("set_flags", NoInst, 0, "Ok")
  /\ UNCHANGED <<fdvars, ops, ioops, io, pc, frame, snap, proc, job_table, walk, run, rd>>

UnsetFlags(flags) ==
  /\ env' = [env EXCEPT !.flags = @ \ flags]
  /\ last' = Op("unset_flags", NoInst, 0, "Ok")
  /\ UNCHANGED <<fdvars, ops, ioops, io, pc, frame, snap, proc, job_table, walk, run, rd>>

\* ------------------------------------- handle_subshell: the script text
\* A text is a sequence of characters.
Chars  == {"#", "!", "/", "p", " ", "\n"}
Bodies == SeqsUpTo(Chars, MaxBody)
Shebang == <<"#", "!">>

\* str::trim
is_whitespace(ch) == ch \in {" ", "\n"}
RECURSIVE trim_start(_)
trim_start(t) == IF t # <<>> /\ is_whitespace(Head(t)) THEN trim_start(Tail(t)) ELSE t
RECURSIVE trim_end(_)
trim_end(t) ==
  IF t # <<>> /\ is_whitespace(t[Len(t)]) THEN trim_end(SubSeq(t, 1, Len(t) - 1)) ELSE t
trim(t) == trim_end(trim_start(t))

starts_with(t, pre) == Len(t) >= Len(pre) /\ SubSeq(t, 1, Len(pre)) = pre
contains(t, ch) == \E i \in DOMAIN t : t[i] = ch

\* std::env::current_exe()
current_exe == <<"/", "o", "x">>

\* helper::which(&command): the path of the command on the search path
which(command, found) == IF found /\ command # <<>> THEN <<<<"/", "b", "/">> \o command>> ELSE <<>>

\* matches!(ch, ' ' | '\t' | '\n' | ';')
is_sep(ch) == ch \in {" ", "\n"}

\* while body_chars.front().is_some_and(..) { body_chars.pop_front(); }
RECURSIVE skip_seps(_)
skip_seps(body_chars) ==
  IF body_chars # <<>> /\ is_sep(Head(body_chars)) THEN skip_seps(Tail(body_chars)) ELSE body_chars

\* while let Some(ch) = body_chars.pop_front() { .. }: the command collected
\* and the body, which is reassigned only where the loop breaks
RECURSIVE scan_command(_, _, _)
scan_command(command, body_chars, body) ==
  IF body_chars = <<>> THEN [command |-> command, body |-> body]
  ELSE IF is_sep(Head(body_chars))
    THEN [command |-> command, body |-> skip_seps(Tail(body_chars))]
    ELSE scan_command(Append(command, Head(body_chars)), Tail(body_chars), body)

\* the text handle_subshell writes into the memfd
subshell_script(text, found) ==
  LET body == trim(text)
  IN IF ~starts_with(body, Shebang)
       THEN Shebang \o current_exe \o <<"\n">> \o body
     ELSE IF ~contains(body, "/")
       THEN LET r == scan_command(<<>>, Tail(Tail(body)), body)
                path == which(r.command, found)
            IN IF path # <<>> THEN Shebang \o path[1] \o <<"\n">> \o r.body ELSE r.body
     ELSE body

\* handle_subshell is entered with a Subshell node whose body is the text
SubshellBody(text, found) ==
  /\ pc = "idle" /\ env.script = <<>>
  /\ env' = [env EXCEPT !.body = text, !.found = found, !.script = subshell_script(text, found)]
  /\ UNCHANGED <<fdvars, last, ops, ioops, io, pc, frame, snap, proc, job_table, walk, run, rd>>

\* ------------------------------------------- expand_token, expand_var
\* Texts without glob or brace characters: '$', a backslash, a character of
\* a variable name and a character that is none of these.
TextChars == {"$", "\\", "v", "-"}
Texts     == SeqsUpTo(TextChars, MaxText)
\* the values the variable v may hold
Values    == {<<>>, <<"-">>, <<"$">>, <<"$", "v">>}

\* ShellEnv::get_variable(..).cloned().unwrap_or_default()
get_variable(variables, key) == IF key \in DOMAIN variables THEN variables[key] ELSE <<>>

\* the first loop of expand_var: left is what stands before the first '$'
\* that no backslash precedes (backslashes removed), right what follows it
RECURSIVE split_dollar(_, _)
split_dollar(left, chars) ==
  IF chars = <<>> THEN [left |-> left, right |-> <<>>]
  ELSE IF Head(chars) = "\\"
    THEN IF Tail(chars) = <<>> THEN [left |-> left, right |-> <<>>]
         ELSE split_dollar(Append(left, chars[2]), Tail(Tail(chars)))
  ELSE IF Head(chars) = "$" THEN [left |-> left, right |-> Tail(chars)]
  ELSE split_dollar(Append(left, Head(chars)), Tail(chars))

\* the second loop: the name, and what is left after the character that
\* ended it
RECURSIVE take_name(_, _)
take_name(var_name, right_chars) ==
  IF right_chars = <<>> THEN [var_name |-> var_name, right |-> <<>>]
  ELSE IF Head(right_chars) = "v" THEN take_name(Append(var_name, "v"), Tail(right_chars))
  ELSE [var_name |-> var_name, right |-> Tail(right_chars)]

expand_var(variables, string) ==
  LET a == split_dollar(<<>>, string)
  IN IF a.right = <<>> THEN string
     ELSE LET b == take_name(<<>>, a.right)
          IN a.left \o get_variable(variables, b.var_name) \o b.right

\* what goes back onto the working buffer: a text with a '$' in it
expand_again(text) == contains(text, "$")

\* expand_token is called: working_buffer.push_back(token.clone())
ExpandToken(text, value) ==
  /\ ~env.expand.on
  /\ env' = [env EXCEPT !.variables = (<<"v">> :> value),
                        !.expand = [on |-> TRUE, working |-> <<text>>, product |-> <<>>]]
  /\ UNCHANGED <<fdvars, last, ops, ioops, io, pc, frame, snap, proc, job_table, walk, run, rd>>

\* one iteration of while let Some(mut token) = working_buffer.pop_front()
ExpandTokenIter ==
  /\ env.expand.on /\ env.expand.working # <<>>
  /\ LET text == expand_var(env.variables, Head(env.expand.working))
     IN env' = IF expand_again(text)
                 THEN [env EXCEPT !.expand.working = <<text>> \o Tail(@)]
                 ELSE [env EXCEPT !.expand.working = Tail(@),
                                  !.expand.product = Append(@, text)]
  /\ UNCHANGED <<fdvars, last, ops, ioops, io, pc, frame, snap, proc, job_table, walk, run, rd>>

\* the statuses a leaf returns where the control statuses are followed
CtlStatus  == {Success, Fail(1, None), SIGBREAK, SIGCONT}
CtlScripts == SeqsUpTo(CtlStatus, MaxScript)
TopStatus  == {Success, Fail(1, None), SIGRSHEXIT}
TopScripts == SeqsUpTo(TopStatus, MaxDeck)
Tops       == [kind : {"Root"}, n : 0 .. MaxDeck, break_condition : {"None"}]

\* the upstream end of the channel queues a tree (with the statuses its
\* statements will return) behind the trees already queued
Send(node, script) ==
  /\ run.at = "inbox" /\ ~run.closed
  /\ Len(script) = Leaves(node)
  /\ run' = [run EXCEPT !.inbox = Append(@, [node |-> node, script |-> script])]
  /\ UNCHANGED <<fdvars, last, ops, ioops, io, pc, frame, snap, proc, job_table, walk, env, rd>>

\* the last sender is dropped: the iterator ends once the queue is drained
CloseInbox ==
  /\ run.at = "inbox" /\ ~run.closed
  /\ run' = [run EXCEPT !.closed = TRUE]
  /\ UNCHANGED <<fdvars, last, ops, ioops, io, pc, frame, snap, proc, job_table, walk, env, rd>>

\* the tree self.inbox.iter() yields next
inbox_next_newest(inbox) == inbox[Len(inbox)]

inbox_next(inbox) == Head(inbox)

\* for tree in self.inbox.iter() { traverse_ast(tree) ... }: the iterator
\* yields the next tree only when the loop body is not running; traverse_ast
\* first saves descriptors 0, 1 and 2 (saved: whether the three from_std*
\* calls succeeded; a failure returns the error from run through the ?)
TraverseAst(saved) ==
  /\ run.at = "inbox" /\ walk.node.kind = "none" /\ run.inbox # <<>>
  /\ LET tree == inbox_next(run.inbox)
     IN  IF saved
           THEN /\ walk' = [NoWalk EXCEPT !.node = tree.node, !.script = tree.script]
                /\ run' = [run EXCEPT !.inbox = Tail(@)]
           ELSE /\ walk' = walk
                /\ run' = [run EXCEPT !.inbox = Tail(@), !.at = "returned"]
  /\ UNCHANGED <<fdvars, last, ops, ioops, io, pc, frame, snap, proc, job_table, env, rd>>

\* for tree in self.inbox.iter() { status = traverse_ast(tree)?; }: the walk
\* of the tree taken has returned and traverse_ast puts the saved
\* descriptors back (restored: whether the three dup2 calls succeeded); an
\* error of either ends run, a status is kept and the dispatcher is back at
\* its inbox
DispatcherRun(restored) ==
  /\ run.at = "inbox" /\ walk.done
  /\ IF walk.res = Err \/ ~restored
       THEN run' = [run EXCEPT !.at = "returned"]
       ELSE run' = [run EXCEPT !.status = walk.res, !.taken = @ + 1]
  /\ walk' = IF walk.res = Err \/ ~restored THEN walk ELSE NoWalk
  /\ UNCHANGED <<fdvars, last, ops, ioops, io, pc, frame, snap, proc, job_table, env, rd>>

\* Ok(status): the iterator ended, the queue is drained and closed
RunOk ==
  /\ run.at = "inbox" /\ walk.node.kind = "none" /\ run.inbox = <<>> /\ run.closed
  /\ run' = [run EXCEPT !.at = "ok"]
  /\ UNCHANGED <<fdvars, last, ops, ioops, io, pc, frame, snap, proc, job_table, walk, env, rd>>

\* the operations of RustFd
NextFd ==
  \/ \E c \in {"new", "from_fd", "from_owned_fd", "from_raw_fd"}, n \in Nums : CanStep /\ Wrap(c, n)
  \/ \E k \in StdNums : CanStep /\ FromStd(k)
  \/ \E a, b \in BOOLEAN : CanStep /\ NewMemfd(a, b)
  \/ \E a \in BOOLEAN : CanStep /\ Open(a)
  \/ \E a \in BOOLEAN : CanStep /\ Pipe(a)
  \/ \E i \in Inst : CanStep /\ Write(i)
  \/ \E i \in Inst : CanStep /\ Dup(i)
  \/ \E i \in Inst, n \in Nums : CanStep /\ Dup2(i, n)
  \/ \E i \in Inst : CanStep /\ Close(i)
  \/ \E i \in Inst : CanStep /\ Drop(i)

SpecFd == Init /\ [][NextFd]_vars

\* the operations of ProcIO, on handles its callers make
NextIO ==
  \/ \E n \in 0 .. MaxNum : ops < MaxHandles /\ Wrap("new", n)
  \/ ops < MaxHandles /\ Open(TRUE)
  \/ \E x, y, z \in Handles : CanIoStep /\ IoFrom(x, y, z)
  \/ \E b \in Io : CanIoStep /\ IoClone(b)
  \/ \E b \in Io : CanIoStep /\ CloseAll(b)
  \/ \E b \in Io : CanIoStep /\ DoPlumbing(b)

SpecIO == Init /\ [][NextIO]_vars

\* one bundle built from opened files, its clones, and closes through them
NextClone ==
  \/ ops < MaxHandles /\ FreeIo = Io /\ Open(TRUE)
  \/ \E x, y, z \in Handles : CanIoStep /\ FreeIo = Io /\ IoFrom(x, y, z)
  \/ \E b \in Io : CanIoStep /\ IoClone(b)
  \/ \E b \in Io : CanIoStep /\ BackupFildescs(b)
  \/ \E b \in Io : CanIoStep /\ CloseAll(b)
  \/ \E b \in Io : CanIoStep /\ DoPlumbing(b)
  \/ \E i \in Inst : CanStep /\ InSlot(i) /\ Close(i)

SpecClone == Init /\ [][NextClone]_vars

\* backup and restore of 0, 1 and 2 by one bundle, among wrappings, closes
\* and re-pointings of the standard descriptors by its caller
NextRT ==
  \/ \E n \in StdNums : ops < MaxRtOps /\ Wrap("new", n)
  \/ \E i \in Inst : ops < MaxRtOps /\ Close(i)
  \/ \E i \in Inst, k \in StdNums : ops < MaxRtOps /\ Dup2(i, k)
  \/ CanIoStep /\ IoFrom(NoInst, NoInst, NoInst)
  \/ \E b \in Io : CanIoStep /\ BackupFildescs(b)
  \/ \E b \in Io : CanIoStep /\ RestoreFildescs(b)

SpecRT == Init /\ [][NextRT]_vars

\* launches of commands, functions and subshells with bundles of opened files
NextLaunch ==
  \/ ops < MaxHandles /\ Open(TRUE)
  \/ \E x, y, z \in Handles : CanIoStep /\ IoFrom(x, y, z)
  \/ \E kind \in {"command", "function", "subshell"}, b \in Io : Launch(kind, b)
  \/ \E a \in BOOLEAN : SubMemfd(a)
  \/ SubBackup
  \/ SubPlumb
  \/ FiBackup
  \/ FiPlumb
  \/ \E a \in BOOLEAN : FiFork(a)
  \/ FiRestore

SpecLaunch == Init /\ [][NextLaunch]_vars

\* expand_token on one token; the loop, once entered, keeps running
NextExpand ==
  \/ /\ ~env.expand.on
     /\ \E text \in Texts : \E value \in Values : ExpandToken(text, value)
  \/ ExpandTokenIter

SpecExpand == Init /\ [][NextExpand]_vars /\ WF_vars(ExpandTokenIter)

\* the alias and function tables under any order of their operations
NextNames ==
  \/ \E key \in Words : SetAlias(key)
  \/ \E key \in Words : RemoveAlias(key)
  \/ \E name \in Words : SetFunction(name)
  \/ \E name \in Words : RemoveFunction(name)
  \/ SetFlags({"NO_ALIAS"})
  \/ UnsetFlags({"NO_ALIAS"})

SpecNames == Init /\ [][NextNames]_vars

\* the scripts handle_subshell makes of body texts
NextScript ==
  \/ /\ env.script = <<>>
     /\ \E text \in Bodies : \E found \in BOOLEAN : SubshellBody(text, found)

SpecScript == Init /\ [][NextScript]_vars

\* the commands of one Root, each launched with a clone of the Root's bundle,
\* whose streams are different handles
NextDeck ==
  \/ ops < MaxHandles /\ Open(TRUE)
  \/ \E x, y, z \in Handles :
        /\ CanIoStep /\ FreeIo = Io
        /\ \A h \in {x, y, z} \ {NoInst} : Cardinality({n \in StdNums : <<x, y, z>>[n + 1] = h}) = 1
        /\ IoFrom(x, y, z)
  \/ \E b \in Io : RootChild(b)
  \/ FiBackup
  \/ FiPlumb
  \/ \E a \in BOOLEAN : FiFork(a)
  \/ FiRestore

SpecDeck == Init /\ [][NextDeck]_vars

\* launches of nodes with their flags, the children they fork and the waits
NextProc ==
  \/ ops < MaxFiles /\ Open(TRUE)
  \/ \E x \in Handles : CanIoStep /\ (\A b \in Io : ~LiveIo(b)) /\ IoFrom(x, NoInst, NoInst)
  \/ \E pipe, bg \in BOOLEAN : \E name \in Names :
        frame.launches < MaxNodes /\ Dispatch("command", pipe, bg, name)
  \/ \E kind \in {"function", "subshell"} : \E pipe, bg \in BOOLEAN :
        frame.launches < MaxNodes /\ Dispatch(kind, pipe, bg, None)
  \/ \E b \in Io : proc.seq = frame.launches + 1 /\ Launch(proc.kind, b)
  \/ \E a \in BOOLEAN : SubMemfd(a)
  \/ SubBackup
  \/ SubPlumb
  \/ FiBackup
  \/ FiPlumb
  \/ \E a, b \in BOOLEAN : FiInPipe(a, b)
  \/ \E a, b \in BOOLEAN : FiForkBg(a, b)
  \/ \E a, b, c \in BOOLEAN : FiForkFg(a, b, c)
  \/ \E a, b \in BOOLEAN : ChildBranch(a, b)
  \/ \E code \in Codes : ChildExit(code)
  \/ \E sig \in Sigs : ChildSignal(sig)
  \/ \E a \in BOOLEAN : FiWait(a)
  \/ FiRestore

SpecProc == Init /\ [][NextProc]_vars

\* a function call or a subshell, the parameters before it and its arguments
NextEnv ==
  \/ ops < MaxFiles /\ Open(TRUE)
  \/ \E x \in Handles : CanIoStep /\ (\A b \in Io : ~LiveIo(b)) /\ IoFrom(x, NoInst, NoInst)
  \/ \E new_params \in ArgTails : SetParams(new_params)
  \/ \E pos_params \in ArgTails : Argv(pos_params)
  \/ \E kind \in {"function", "subshell"} : \E pipe, bg \in BOOLEAN :
        frame.launches < MaxNodes /\ Dispatch(kind, pipe, bg, None)
  \/ \E b \in Io : proc.seq = frame.launches + 1 /\ Launch(proc.kind, b)
  \/ \E a \in BOOLEAN : SubMemfd(a)
  \/ SubBackup
  \/ SubPlumb
  \/ FiBackup
  \/ FiPlumb
  \/ \E a, b \in BOOLEAN : FiInPipe(a, b)
  \/ \E a, b \in BOOLEAN : FiForkBg(a, b)
  \/ \E a, b, c \in BOOLEAN : FiForkFg(a, b, c)
  \/ \E a, b \in BOOLEAN : ChildBranch(a, b)
  \/ \E code \in Codes : ChildExit(code)
  \/ \E sig \in Sigs : ChildSignal(sig)
  \/ \E a \in BOOLEAN : FiWait(a)
  \/ FiRestore

SpecEnv == Init /\ [][NextEnv]_vars

\* foreground launches of external commands and the wait loop of each
WaitLoop ==
  \/ \E a \in BOOLEAN : FiWait(a)
  \/ \E errno \in Errnos : FiWaitErr(errno)

NextWait ==
  \/ ops < MaxFiles /\ Open(TRUE)
  \/ \E x \in Handles : CanIoStep /\ (\A b \in Io : ~LiveIo(b)) /\ IoFrom(x, NoInst, NoInst)
  \/ \E name \in Names : frame.launches < MaxNodes /\ Dispatch("command", FALSE, FALSE, name)
  \/ \E b \in Io : proc.seq = frame.launches + 1 /\ Launch(proc.kind, b)
  \/ FiBackup
  \/ FiPlumb
  \/ \E a, b, c \in BOOLEAN : FiForkFg(a, b, c)
  \/ \E a, b \in BOOLEAN : ChildBranch(a, b)
  \/ \E code \in Codes : ChildExit(code)
  \/ \E sig \in Sigs : ChildSignal(sig)
  \/ WaitLoop
  \/ FiRestore

\* the shell process runs: an iteration of its wait loop that can complete
\* does complete
SpecWait == Init /\ [][NextWait]_vars /\ WF_vars(WaitLoop)

\* one call of handle_redirs on the shell's descriptors and the drop of
\* what it returned
NextRedirs ==
  \/ /\ rd.st = "none"
     /\ \E redirs \in RedirSeqs : \E fail_at \in 0 .. Len(redirs) : HandleRedirs(redirs, fail_at)
  \/ DropQueue

SpecRedirs == Init /\ [][NextRedirs]_vars

\* jobs created, their members reaped, the current job recomputed
NextJobs ==
  \/ \E n \in 1 .. MaxStages : \E fg \in BOOLEAN : NewJob(n, fg)
  \/ \E id \in DOMAIN job_table.jobs : \E pid_index \in 0 .. MaxStages :
       \E new_stat \in {Fail(1, None), Stopped} : Reap(id, pid_index, new_stat)
  \/ UpdateCurrJob

SpecJobs == Init /\ [][NextJobs]_vars

\* a job table is built up and its jobs are listed; a panic ends the shell
NextPrint ==
  \/ /\ job_table.out = <<>>
     /\ \E n \in 1 .. MaxStages : \E fg \in BOOLEAN : NewJob(n, fg)
  \/ /\ job_table.out = <<>>
     /\ \E id \in DOMAIN job_table.jobs : \E pid_index \in 0 .. MaxStages - 1 :
          \E new_stat \in {Fail(1, None), Stopped} : Reap(id, pid_index, new_stat)
  \/ \E flags \in JobFlags : PrintJobs(flags)

SpecPrint == Init /\ [][NextPrint]_vars

\* one tree walked by the handler of its kind
NextWalk ==
  \/ /\ walk.node.kind = "none"
     /\ \E node \in Roots \cup Chains \cup Ifs \cup Loops \cup Fors \cup Cases :
          \E script \in Scripts : Receive(node, script)
  \/ WalkRoot
  \/ WalkChain
  \/ WalkIf
  \/ WalkLoop
  \/ WalkFor
  \/ WalkCase

SpecWalk == Init /\ [][NextWalk]_vars

\* one loop whose leaves may return the loop control statuses
NextCtl ==
  \/ /\ walk.node.kind = "none"
     /\ \E node \in Loops : \E script \in CtlScripts : Receive(node, script)
  \/ WalkLoop

SpecCtl == Init /\ [][NextCtl]_vars

\* the dispatcher and the trees of its inbox, whose statements may return the
\* exit status
NextRun ==
  \/ /\ run.taken + Len(run.inbox) + (IF walk.node.kind = "none" THEN 0 ELSE 1) < MaxTrees
     /\ \E node \in Tops : \E script \in TopScripts : Send(node, script)
  \/ CloseInbox
  \/ \E saved \in BOOLEAN : TraverseAst(saved)
  \/ WalkRoot
  \/ \E restored \in BOOLEAN : DispatcherRun(restored)
  \/ RunOk

SpecRun == Init /\ [][NextRun]_vars

\* ================================================================ claims
Ctors == {"new", "from_fd", "from_owned_fd", "from_raw_fd", "from_std", "new_memfd", "open", "pipe"}

\* C1: after a successful close() the instance is not valid, and every later
\* close() on it returns Err, issues no OS close and leaves the table alone.
C1_CloseOnce ==
  /\ [](\A i \in Inst : (Live(i) /\ closedOk[i]) => ~is_valid(fd[i]))
  /\ [][\A i \in Inst : (closedOk[i] /\ last'.op = "close" /\ last'.inst = i)
           => (last'.res = "Err" /\ last'.arg = 0 /\ fdt' = fdt)]_vars
\* a close() has been refused on an instance that was closed before
C1_Witness == last.op = "close" /\ last.res = "Err" /\ closedOk[last.inst]

\* C2: is_valid() is true exactly when the number is not negative.
C2_ValidIffNonNegative == \A i \in Inst : Live(i) => (is_valid(fd[i]) <=> fd[i] >= 0)

\* C3: dup2 onto the instance's own number returns Ok whatever the number
\* is, and changes neither the descriptor table nor any instance.
C3_Dup2SameIsNoop ==
  [][(last'.op = "dup2" /\ fd[last'.inst] = last'.arg)
       => (last'.res = "Ok" /\ fdt' = fdt /\ fd' = fd /\ st' = st)]_vars
\* dup2 onto its own number was called on an instance is_valid() rejects
C3_Witness == last.op = "dup2" /\ fd[last.inst] = last.arg /\ last.arg <= 0 /\ last.res = "Ok"

\* C4: no constructor returns an instance whose number is negative.
C4_NoNegativeInstance ==
  (last.op \in Ctors /\ last.res = "Ok") => fd[last.inst] >= 0

\* C5: dropping an instance that is still open (number >= 0, never closed,
\* descriptor open) closes its OS descriptor, exactly once.
C5_DropClosesOpen ==
  [][(last'.op = "drop" /\ fd[last'.inst] >= 0 /\ ~closedOk[last'.inst]
        /\ IsOpen(fdt, fd[last'.inst]))
       => (~IsOpen(fdt', fd[last'.inst]) /\ ncloses'[last'.inst] = 1)]_vars

\* C6: after close_all, Ok or Err, no handle the bundle holds is left open
\* when a close of it would succeed.
C6_CloseAllAttemptsAll ==
  last.op = "close_all" =>
    \A n \in StdNums : LET h == SlotOf(io[last.inst], n)
                       IN h # NoInst => ~(is_valid(fd[h]) /\ IsOpen(fdt, fd[h]))

\* C7: a successful restore after a successful backup and re-pointings of
\* 0, 1, 2 only leaves each of 0, 1, 2 that was open at the backup on its
\* resource of then, the backup table empty and every duplicate closed.
C7_RoundTrip ==
  snap.phase = "restored" =>
    /\ \A k \in StdNums : snap.tab[k] # Closed => fdt[k] = snap.tab[k]
    /\ io[snap.io].backup = EmptyBackup
    /\ \A k \in StdNums : closedOk[snap.dups[k]] /\ fd[snap.dups[k]] = -1

\* C8: in one launch frame backup_fildescs runs at most once and do_plumbing
\* runs at most once before the restore.
C8_BackupOncePerFrame == frame.backups <= 1 /\ frame.plumbs <= 1

\* C9: a successful do_plumbing leaves each real descriptor whose stream the
\* bundle holds on the resource its handle had, with the handle closed, and
\* leaves the other real descriptors unchanged.
C9_PlumbingEffect ==
  [][(last'.op = "do_plumbing" /\ last'.res = "Ok")
       => \A n \in StdNums :
            LET h == SlotOf(io[last'.inst], n)
            IN IF h = NoInst THEN fdt'[n] = fdt[n]
               ELSE fdt'[n] = fdt[fd[h]] /\ ~is_valid(fd'[h])]_vars

\* C10: a clone holds the very handles of its original, so a close through
\* either is seen by both, and a new clone has an empty backup table.
C10_CloneShares ==
  \A c \in Io : (LiveIo(c) /\ io[c].cloneOf # 0) =>
    /\ \A n \in StdNums :
         LET h == SlotOf(io[c], n)
             g == SlotOf(io[io[c].cloneOf], n)
         IN /\ (h = NoInst) <=> (g = NoInst)
            /\ h # NoInst => (fd[h] = fd[g] /\ closedOk[h] = closedOk[g])
    /\ (last.op = "clone" /\ last.inst = c) => io[c].backup = EmptyBackup
\* a handle was closed through a clone, or a bundle with a backup was cloned
C10_Witness ==
  \E c \in Io : /\ LiveIo(c) /\ io[c].cloneOf # 0
                /\ last.op \in {"close_all", "do_plumbing"} /\ last.inst = c
                /\ \E n \in StdNums : SlotOf(io[c], n) # NoInst /\ closedOk[SlotOf(io[c], n)]

\* the node in proc is the one the launch frame was entered for
Launched(kind) == frame.kind = kind /\ proc.seq = frame.launches
\* the launcher has returned Ok(status) to the walker
ReturnedOk == pc = "idle" /\ last.op = "restore_fildescs" /\ last.res = "Ok"

\* C11: when the launcher of a foreground external command returns after its
\* child has ended, the terminal's foreground group is the shell's own; when
\* what it returns is a status, the status is Success for exit code 0,
\* Fail{code, name of the command} for another code, Signaled{sig} for a signal.
C11_ForegroundStatus ==
  (Launched("command") /\ ~proc.pipe /\ ~proc.bg /\ pc = "idle" /\ last.op = "restore_fildescs") =>
    /\ proc.child \in {"exited", "signaled"}
    /\ proc.tty = "self"
    /\ ReturnedOk =>
         /\ (proc.child = "exited" /\ proc.code = 0) => proc.status = Success
         /\ (proc.child = "exited" /\ proc.code # 0) => proc.status = Fail(proc.code, proc.name)
         /\ proc.child = "signaled" => proc.status = Signaled(proc.sig)

C11_Witness ==
  /\ Launched("command") /\ ~proc.pipe /\ ~proc.bg /\ ReturnedOk
  /\ proc.child = "exited" /\ proc.status = Fail(127, "nosuch") /\ proc.tty = "self"

\* C12: the child branch of an external command that does not replace its
\* process image never returns into the shell's logic and never falls through:
\* no child is left running the walker, the launching process of a node inside
\* a pipe neither goes on past the branch nor returns its error.
C12_ChildNeverReturns ==
  Launched("command") =>
    /\ proc.child # "walker"
    /\ ~proc.inlined
    /\ ~(last.op = "child_instr" /\ last.res = "Err")

\* C13: no fork is performed for a node that runs inside a pipe.
C13_InPipeNoFork == proc.pipe => proc.forks = 0

\* C14: when the launcher of a background node has forked and returned, the
\* Job Table holds a job with the child's pid whose status is Running.
C14_BackgroundJob ==
  (proc.bg /\ proc.seq = frame.launches /\ proc.forks > 0 /\ ReturnedOk) =>
    \E j \in DOMAIN job_table.jobs :
      \E k \in DOMAIN job_table.jobs[j].pids :
        /\ job_table.jobs[j].pids[k] = proc.seq
        /\ job_table.jobs[j].statuses[k] = [s |-> "Running"]

\* what a finished walk of a tree of the given kind left behind
Ev           == walk.evals
Walked(kind) == walk.done /\ walk.node.kind = kind
NoErr        == \A p \in DOMAIN Ev : Ev[p].s # Err
Max(S)       == CHOOSE x \in S : \A y \in S : y <= x
Min(S)       == CHOOSE x \in S : \A y \in S : x <= y
At(blk, it)  == {p \in DOMAIN Ev : Ev[p].l.blk = blk /\ Ev[p].l.it = it}
In(blk)      == {p \in DOMAIN Ev : Ev[p].l.blk = blk}
\* the status a condition block came to: that of its last evaluated child
CondStatus(it) == Ev[Max(At("cond", it))].s
\* the last n evaluations are the n children of the block, in order
EndsWith(blk, it, n) ==
  /\ Len(Ev) >= n
  /\ \A i \in 1 .. n : Ev[Len(Ev) - n + i].l = Lab(blk, it, i)

\* C15: Chain: the left node is evaluated first; the right node is evaluated
\* iff (AND and left is Success) or (OR and left is not Success), after the
\* left one returned; the result is the right node's when it was evaluated and
\* the left node's otherwise.
C15_Chain ==
  Walked("Chain") =>
    /\ Len(Ev) \in {1, 2}
    /\ Ev[1].l = Lab("left", 0, 1)
    /\ Len(Ev) = 2 <=>
         /\ Ev[1].s # Err
         /\ \/ walk.node.op = "And" /\ Ev[1].s = Success
            \/ walk.node.op = "Or" /\ Ev[1].s # Success
    /\ Len(Ev) = 2 => Ev[2].l = Lab("right", 0, 1)
    /\ walk.res = Ev[Len(Ev)].s

C15_Witness ==
  /\ Walked("Chain") /\ walk.node.op = "Or"
  /\ Len(Ev) = 2 /\ Ev[1].s = Fail(1, None) /\ walk.res = Success

\* C16: If: the conditions are examined in order; the body of the first pair
\* whose condition is Success is executed, nothing is evaluated after it and
\* the result is its status; when no condition is Success every condition was
\* examined, no body of a pair is executed, and the else-body is executed iff
\* there is one.
C16_If ==
  (Walked("If") /\ NoErr) =>
    LET node == walk.node
        succ == {k \in 1 .. node.pairs : At("cond", k) # {} /\ CondStatus(k) = Success}
    IN /\ \A p, q \in In("cond") : p < q => Ev[p].l.it <= Ev[q].l.it
       /\ IF succ # {}
            THEN /\ \A k \in 1 .. Min(succ) : At("cond", k) # {}
                 /\ \A p \in DOMAIN Ev : Ev[p].l.it <= Min(succ)
                 /\ EndsWith("body", Min(succ), node.nb)
                 /\ Cardinality(In("body")) = node.nb
                 /\ In("else") = {}
                 /\ walk.res = Ev[Len(Ev)].s
            ELSE /\ \A k \in 1 .. node.pairs : At("cond", k) # {}
                 /\ In("body") = {}
                 /\ IF node.else
                      THEN /\ EndsWith("else", 0, node.nb)
                           /\ Cardinality(In("else")) = node.nb
                           /\ walk.res = Ev[Len(Ev)].s
                      ELSE In("else") = {}

C16_Witness ==
  /\ Walked("If") /\ NoErr /\ walk.node.pairs = 2 /\ walk.node.else
  /\ At("cond", 2) # {} /\ CondStatus(1) # Success /\ CondStatus(2) = Success
  /\ EndsWith("body", 2, walk.node.nb)

\* C17: Loop: every iteration starts with the condition; a while loop ends
\* the first time the condition is not Success, an until loop the first time
\* it is Success, and nothing is evaluated after that condition; otherwise the
\* body is evaluated and the condition again; the result is the status of the
\* last body evaluation, Success if there was none.
C17_Loop ==
  Walked("Loop") =>
    LET node == walk.node
        its  == {Ev[p].l.it : p \in DOMAIN Ev}
        Ends(s) == IF node.condition THEN s # Success ELSE s = Success
    IN /\ \A p, q \in DOMAIN Ev : p < q =>
            /\ Ev[p].l.it <= Ev[q].l.it
            /\ (Ev[p].l.it = Ev[q].l.it /\ Ev[p].l.blk = "body") => Ev[q].l.blk = "body"
       /\ \A it \in its : At("cond", it) # {} /\ (it > 1 => it - 1 \in its)
       /\ \A it \in its : CondStatus(it) # Err =>
            IF Ends(CondStatus(it))
              THEN Max(At("cond", it)) = Len(Ev)
              ELSE /\ node.nb > 0 => At("body", it) # {}
                   /\ (\A p \in At("body", it) : Ev[p].s # Err) =>
                        /\ Cardinality(At("body", it)) = node.nb
                        /\ it + 1 \in its
       /\ NoErr =>
            /\ Ev # <<>> /\ Ev[Len(Ev)].l.blk = "cond" /\ Ends(Ev[Len(Ev)].s)
            /\ walk.res = IF In("body") = {} THEN Success ELSE Ev[Max(In("body"))].s

C17_Witness ==
  /\ Walked("Loop") /\ NoErr /\ walk.node.condition
  /\ In("body") # {} /\ walk.res = Fail(1, None)

\* C18: For: with N variables and a flattened list of M elements the body
\* runs M times; before run i (from 0) variable i mod N is set to element i;
\* the result is the status of the last run, Success when M = 0.
C18_For ==
  (Walked("For") /\ NoErr) =>
    LET node  == walk.node
        N     == node.vars
        elems == UNION {{<<t, w>> : w \in 1 .. node.loop_arr[t]} : t \in DOMAIN node.loop_arr}
        M     == Cardinality(elems)
        B     == walk.binds
    IN /\ Len(B) = M
       /\ Len(Ev) = M * node.nb
       /\ \A i \in 1 .. M : B[i].var = (i - 1) % N /\ B[i].at = (i - 1) * node.nb
       /\ {B[i].val : i \in 1 .. M} = elems
       /\ \A i, j \in 1 .. M : i < j =>
            \/ B[i].val[1] < B[j].val[1]
            \/ B[i].val[1] = B[j].val[1] /\ B[i].val[2] < B[j].val[2]
       /\ \A p \in DOMAIN Ev :
            Ev[p].l = Lab("body", ((p - 1) \div node.nb) + 1, ((p - 1) % node.nb) + 1)
       /\ walk.res = IF M = 0 THEN Success ELSE Ev[Len(Ev)].s

C18_Witness ==
  /\ Walked("For") /\ NoErr /\ walk.node.vars = 2
  /\ Len(walk.binds) = 3 /\ walk.binds[3].var = 0 /\ Len(Ev) = 3

\* C19: Case: the body of the first pattern equal to the input, and only
\* that body, is evaluated and its status returned; when no pattern is equal
\* nothing is evaluated and the result is Fail with exit code 1.
C19_Case ==
  Walked("Case") =>
    LET node    == walk.node
        matches == {k \in DOMAIN node.cases : node.cases[k] = node.input_var}
    IN IF matches = {}
         THEN Ev = <<>> /\ walk.res.s = "Fail" /\ walk.res.code = 1
         ELSE /\ Len(Ev) <= node.nb
              /\ \A p \in DOMAIN Ev : Ev[p].l = Lab("body", Min(matches), p)
              /\ NoErr => Len(Ev) = node.nb /\ walk.res = Ev[node.nb].s

C19_Witness ==
  /\ Walked("Case") /\ NoErr /\ walk.node.cases = <<"a", "a">>
  /\ walk.node.input_var = "a" /\ Len(Ev) = walk.node.nb

\* C20: Root: the children are evaluated in list order; evaluation stops
\* right after the first child whose status is Fail under break-condition
\* true, right after the first whose status is Success under false, and
\* covers every child under none; the result is the status of the last child
\* evaluated, Success for an empty list.
C20_Root ==
  Walked("Root") =>
    LET node == walk.node
        m    == Len(Ev)
        Stops(s) == \/ node.break_condition = "true" /\ s.s = "Fail"
                    \/ node.break_condition = "false" /\ s = Success
    IN /\ m <= node.n
       /\ \A k \in 1 .. m : Ev[k].l = Lab("deck", 0, k)
       /\ \A k \in 1 .. m : k <= Len(walk.script) => Ev[k].s = walk.script[k]
       /\ \A k \in 1 .. (m - 1) : Ev[k].s # Err /\ ~Stops(Ev[k].s)
       /\ NoErr =>
            /\ m < node.n => (m >= 1 /\ Stops(Ev[m].s))
            /\ walk.res = IF m = 0 THEN Success ELSE Ev[m].s

C20_Witness ==
  /\ Walked("Root") /\ walk.node.n = 2 /\ walk.node.break_condition = "true"
  /\ Len(Ev) = 1 /\ Ev[1].s = Fail(1, None) /\ Len(walk.script) = 2 /\ walk.res = Fail(1, None)

\* C21: a SIGBREAK returned by a statement of a loop's body is the last thing
\* the loop evaluates (no later statement, no condition again) and is not
\* the status the loop returns; after a SIGCONT returned in the body the next
\* thing evaluated is the condition.
C21_BreakConsumed ==
  Walked("Loop") =>
    /\ walk.res # SIGBREAK
    /\ \A p \in In("body") :
         /\ Ev[p].s = SIGBREAK => p = Len(Ev)
         /\ (Ev[p].s = SIGCONT /\ p < Len(Ev)) => Ev[p + 1].l.blk = "cond"

\* C22: once the status the dispatcher holds is SIGRSHEXIT, it takes no
\* further tree from its inbox.
C22_ExitStops == run.status = SIGRSHEXIT => walk.node.kind = "none"

\* C23: the forked child of a function call exits with code 0 whatever the
\* walk of the body returned (a status, SIGRETURN or an error), and a
\* foreground call that waited for that exit returns Success, never SIGRETURN.
C23_FunctionExitsZero ==
  (Launched("function") /\ proc.body # NoRes) =>
    /\ proc.child = "exited" => proc.code = 0
    /\ proc.status # SIGRETURN
    /\ (~proc.bg /\ ReturnedOk /\ proc.child = "exited") => proc.status = Success

C23_Witness ==
  /\ Launched("function") /\ ~proc.bg /\ ReturnedOk
  /\ proc.body = SIGRETURN /\ proc.child = "exited" /\ proc.status = Success

\* C24: when handle_function or handle_subshell has returned in the shell
\* process, the positional parameters are those of the snapshot the handler
\* took on entry.
C24_SnapshotRestored ==
  (frame.kind \in {"function", "subshell"} /\ proc.seq = frame.launches
      /\ pc = "idle" /\ proc.me = "shell") =>
    env.params = env.snapshot

\* C25: whatever the order of the input, handle_redirs applies the
\* directives with a path before every directive with a descriptor number,
\* each kind in the order given; when it returns Ok every directive was
\* applied.
IsDupe(k) == rd.redirs[k].fd_target >= 0

C25_PathsFirst ==
  rd.st = "held" =>
    /\ \A i, j \in DOMAIN rd.log :
         i < j => /\ IsDupe(rd.log[i].k) => IsDupe(rd.log[j].k)
                  /\ IsDupe(rd.log[i].k) = IsDupe(rd.log[j].k) => rd.log[i].k < rd.log[j].k
    /\ rd.res = "Ok" => {rd.log[i].k : i \in DOMAIN rd.log} = DOMAIN rd.redirs

C25_Witness ==
  /\ rd.st = "held" /\ rd.res = "Ok" /\ Len(rd.redirs) = 2
  /\ IsDupe(1) /\ ~IsDupe(2) /\ rd.log[1].k = 2 /\ rd.log[2].k = 1

\* C26: handle_redirs returns one descriptor per directive applied, in that
\* order, which is another number than the source and refers to what the
\* source referred to before the directive; dropping the returned queue
\* leaves the descriptor table as handle_redirs left it.
C26_ReturnsOriginals ==
  /\ (rd.st = "held" /\ rd.res = "Ok") =>
       /\ Len(rd.fd_queue) = Len(rd.log)
       /\ \A k \in DOMAIN rd.fd_queue :
            /\ fd[rd.fd_queue[k]] \in Fds
            /\ fd[rd.fd_queue[k]] # rd.redirs[rd.log[k].k].fd_source
            /\ fdt[fd[rd.fd_queue[k]]] = rd.log[k].was
  /\ (rd.st = "dropped" /\ rd.res = "Ok") => fdt = rd.after

Jobs    == job_table.jobs
ActiveIds(jt) == {j \in DOMAIN jt.jobs : jt.jobs[j].active}

\* C27: new_job for a foreground job puts a job with id 0 in the fg slot and
\* leaves the map and the current job as they were; for a background job it
\* adds, under the id one above the number of jobs in the map, an entry that
\* was not there, leaves the other entries alone, and makes that id the
\* current job, so the map's ids are 1 .. k after the k-th background job.
C27_NewJob ==
  [][last'.op = "new_job" =>
       IF last'.arg = 1
         THEN /\ job_table'.jobs = Jobs
              /\ job_table'.curr_job = job_table.curr_job
              /\ Len(job_table'.fg) = 1 /\ job_table'.fg[1].job_id = 0
         ELSE LET k == Cardinality(DOMAIN Jobs) + 1
              IN /\ k \notin DOMAIN Jobs
                 /\ DOMAIN job_table'.jobs = 1 .. k
                 /\ \A j \in DOMAIN Jobs : job_table'.jobs[j] = Jobs[j]
                 /\ job_table'.jobs[k].job_id = k
                 /\ job_table'.curr_job = <<k>>
                 /\ job_table'.fg = job_table.fg]_vars

C27_Witness ==
  /\ last.op = "new_job" /\ last.arg = 0 /\ DOMAIN Jobs = {1, 2}
  /\ job_table.curr_job = <<2>> /\ Len(job_table.fg) = 1

\* C28: every job of the table has as many commands and statuses as pids,
\* whatever statuses were updated, and a job just created is active with
\* every status Running.
SameLens(job) == Len(job.pids) = Len(job.commands) /\ Len(job.pids) = Len(job.statuses)
Fresh(job)    == job.active /\ \A i \in DOMAIN job.statuses : job.statuses[i] = Running

C29_UpdateCurrJob ==
  [][last'.op = "update_curr_job" =>
       /\ job_table'.curr_job =
            IF ActiveIds(job_table) = {} THEN <<>> ELSE <<Max(ActiveIds(job_table))>>
       /\ job_table' = [job_table EXCEPT !.curr_job = job_table'.curr_job]]_vars

C29_Witness ==
  /\ last.op = "update_curr_job" /\ DOMAIN Jobs = {1, 2}
  /\ Jobs[1].active /\ ~Jobs[2].active /\ job_table.curr_job = <<1>>

C31_InOrder ==
  [][/\ Len(run'.inbox) < Len(run.inbox) =>
          /\ walk.node.kind = "none"
          /\ run'.inbox = Tail(run.inbox)
          /\ walk'.node.kind # "none" =>
                /\ walk'.node = Head(run.inbox).node
                /\ walk'.script = Head(run.inbox).script
     /\ walk'.node.kind # "none" /\ walk.node.kind = "none" => Len(run'.inbox) < Len(run.inbox)
     /\ run'.status # run.status => walk.done
     /\ walk.done /\ walk'.node.kind = "none" => run'.status = walk.res /\ run'.at = "inbox"
     /\ run'.at = "ok" /\ run.at # "ok" =>
          /\ run.closed /\ run.inbox = <<>> /\ walk.node.kind = "none"
          /\ run'.status = run.status
          /\ run.taken = 0 => run.status = Success
    ]_vars

C31_Witness == run.at = "ok" /\ run.taken >= 2 /\ run.status = Fail(1, None)

\* C32: when a foreground launch that forked a child has returned to the
\* walker, the child has ended and was waited for, the terminal's foreground
\* group is the shell's own and restore_fildescs has run.
C32_ForegroundCleanup ==
  (pc = "idle" /\ proc.seq > 0 /\ proc.seq = frame.launches /\ ~proc.bg /\ proc.forks > 0) =>
    /\ proc.child \in {"exited", "signaled"}
    /\ proc.tty = "self"
    /\ frame.restores > 0

\* C33: an iteration of the wait loop in which waitpid is interrupted is
\* followed by another iteration with nothing else changed; an iteration in
\* which the child is reported ended leaves the loop with the status of that
\* end; any other error leaves the loop at once; and a loop whose child has
\* ended does not go on.
Ended == proc.child \in {"exited", "signaled"}

C33_WaitStep ==
  (pc = "fi_wait" /\ proc'.waits = proc.waits + 1) =>
     CASE last'.res = "EINTR" ->
            /\ pc' = "fi_wait"
            /\ proc' = [proc EXCEPT !.waits = @ + 1]
       [] last'.res = "Ok" ->
            /\ Ended /\ pc' = "fi_restore"
            /\ proc'.status = fi_status(proc.child, proc.code, proc.sig, cmd)
       [] last'.res = "panic" -> Ended /\ pc' = "gone"
       [] OTHER -> pc' = "gone" /\ proc'.me = "panicked"

C33_WaitEnds ==
  /\ [][C33_WaitStep]_vars
  /\ [][pc # "fi_wait" => proc'.waits = proc.waits \/ proc'.waits = 0]_vars
  /\ (pc = "fi_wait" /\ Ended) ~> (pc # "fi_wait")

C33_Witness ==
  /\ pc = "fi_restore" /\ proc.waits = MaxEintr + 1 /\ last.op = "waitpid"
  /\ proc.status = Signaled("SIGINT")

\* C34: do_plumbing of a launch whose bundle is a clone of a Root's bundle
\* that holds a stream succeeds, for the first child of the Root and for the
\* later ones.
C34_EveryChildPlumbed ==
  (last.op = "do_plumbing"
     /\ \E b \in Io : /\ LiveIo(b) /\ io[b].cloneOf = 0
                      /\ \E n \in StdNums : SlotOf(io[b], n) # NoInst) =>
    last.res = "Ok"

\* C35: a call of handle_redirs with the one directive N>&M, N # M, that
\* returns Ok leaves descriptor N referring to what M referred to, M open on
\* what it referred to, and every other descriptor as it was.
C35_DupeKeepsTarget ==
  [][(rd.st = "none" /\ rd'.st = "held" /\ rd'.res = "Ok" /\ Len(rd'.redirs) = 1
        /\ rd'.redirs[1].fd_target >= 0
        /\ rd'.redirs[1].fd_target # rd'.redirs[1].fd_source) =>
       LET N == rd'.redirs[1].fd_source
           M == rd'.redirs[1].fd_target
       IN /\ fdt'[N] = fdt[M]
          /\ fdt'[M] = fdt[M]
          /\ \A n \in Fds \ {N} : fdt'[n] = fdt[n]
    ]_vars

\* C36: the script made of a body begins with "#!"; for a body that does not
\* begin with "#!" it is "#!", the shell's executable path, a newline and
\* the body; for a body whose first line is "#!" and a name without '/' that
\* is found on the search path it is the body with that name replaced by the
\* path found.
DirectiveName(body) ==
  LET rest == Tail(Tail(body))
      ends == {i \in DOMAIN rest : is_sep(rest[i])}
      n == IF ends = {} THEN Len(rest) ELSE (CHOOSE i \in ends : \A j \in ends : i <= j) - 1
  IN SubSeq(rest, 1, n)

C36_ScriptDirective ==
  env.script # <<>> =>
    LET body == trim(env.body)
    IN /\ starts_with(env.script, Shebang)
       /\ ~starts_with(body, Shebang) =>
            env.script = Shebang \o current_exe \o <<"\n">> \o body
       /\ (starts_with(body, Shebang) /\ ~contains(DirectiveName(body), "/")
             /\ which(DirectiveName(body), env.found) # <<>>) =>
            env.script = Shebang \o which(DirectiveName(body), env.found)[1]
                           \o SubSeq(body, 3 + Len(DirectiveName(body)), Len(body))

\* C37: an If without an else-body whose conditions (at least one) all came
\* to a status other than Success evaluates nothing of a body and returns the
\* status of its last condition, which is not Success.
C37_IfNoBranch ==
  (Walked("If") /\ NoErr /\ walk.node.pairs >= 1 /\ ~walk.node.else
     /\ \A k \in 1 .. walk.node.pairs : At("cond", k) # {} /\ CondStatus(k) # Success) =>
    /\ In("body") = {} /\ In("else") = {}
    /\ walk.res = CondStatus(walk.node.pairs)
    /\ walk.res # Success

C37_Witness ==
  /\ Walked("If") /\ NoErr /\ walk.node.pairs = 2 /\ ~walk.node.else
  /\ At("cond", 1) # {} /\ At("cond", 2) # {}
  /\ CondStatus(1) = Fail(1, None) /\ CondStatus(2) = Signaled("SIGINT")
  /\ walk.res = Signaled("SIGINT")

\* C38: a print_jobs call leaves the updated-since-check list empty; with
\* the RUNNING or the STOPPED filter it completes, and of the jobs with one
\* process it prints those whose process is Running, respectively Stopped,
\* and no other.
C38_PrintFiltered ==
  job_table.out # <<>> =>
    LET o == job_table.out[1]
        One == {id \in o.jobs : Len(Jobs[id].statuses) = 1}
        Printed == {o.printed[i] : i \in DOMAIN o.printed}
    IN /\ job_table.updated_since_check = <<>>
       /\ o.flags \cap {"RUNNING", "STOPPED"} # {} => o.res = "Ok"
       /\ "RUNNING" \in o.flags =>
            \A id \in One : id \in Printed <=>
               (Jobs[id].statuses[1] = Running /\ "STOPPED" \notin o.flags)
       /\ ("STOPPED" \in o.flags /\ "RUNNING" \notin o.flags) =>
            \A id \in One : id \in Printed <=> Jobs[id].statuses[1] = Stopped

\* C39: no name is a key of the alias table and of the function table at
\* the same time; a set_alias or set_function that returned an error changed
\* neither table.
C39_NamesDisjoint ==
  /\ env.aliases \cap env.functions = {}
  /\ [][(last'.op \in {"set_alias", "set_function"} /\ last'.res = "Err") =>
          (env'.aliases = env.aliases /\ env'.functions = env.functions)]_vars
  /\ [][\A key \in Words :
          /\ (key \in env.functions /\ key \notin env.aliases) => key \notin env'.aliases
          /\ (key \in env.aliases /\ key \notin env.functions) => key \notin env'.functions]_vars

\* C40: a call of expand_token comes to the end of its loop: its working
\* buffer is eventually empty.
C40_ExpandTerminates == env.expand.on ~> (env.expand.working = <<>>)

====
